---- MODULE Spec2Model ----
(***************************************************************************)
(* The sonor zone manager: the Controller (device registry, reduced        *)
(* topology, event handling, run loop), the zone-action router and the     *)
(* callers that submit commands through Zone::action.                      *)
(*                                                                         *)
(* One action of the model is one handler of the program run to its end:   *)
(* the run loop awaits every handler before it selects again, and only the *)
(* loop touches the registry and the topology.                             *)
(*                                                                         *)
(* The network is an input: every remote call, device resolution and       *)
(* subscribe attempt may succeed or fail.  A device that answers at the    *)
(* location a topology payload lists is the device the payload lists there *)
(* (it reports that uuid and room name).                                   *)
(***************************************************************************)
EXTENDS Integers, Sequences, FiniteSets, TLC

(***************************************************************************)
(* Strings.  Uuids and room names are compared with eq_ignore_ascii_case   *)
(* almost everywhere, so the universe holds case variants.                 *)
(***************************************************************************)
to_ascii_lowercase(s) ==
    CASE s = "U1" -> "u1"
      [] s = "Kitchen" -> "kitchen"
      [] s = "Den" -> "den"
      [] OTHER -> s

eq_ignore_ascii_case(a, b) == to_ascii_lowercase(a) = to_ascii_lowercase(b)

(***************************************************************************)
(* SpeakerInfo {name, uuid, location} and the member descriptors that the  *)
(* topology payloads of the model carry.                                   *)
(***************************************************************************)
SpeakerInfo(n, u, l) == [name |-> n, uuid |-> u, location |-> l]

InfoA == SpeakerInfo("Kitchen", "u1", "l1")

InfoA2 == SpeakerInfo("kitchen", "U1", "l2")

InfoB == SpeakerInfo("Den", "u2", "l3")

InfoB2 == SpeakerInfo("Kitchen", "u2", "l3")

\* Topology = Vec<(Uuid, Vec<SpeakerInfo>)>: the payloads a topology event
\* or a GetZoneGroupState answer can carry.
TopologyPayloads ==
    { << >>,
      << <<"u1", <<InfoA>>>> >>,
      << <<"u1", <<InfoA, InfoB>>>> >>,
      << <<"u1", <<InfoB, InfoA>>>> >>,
      << <<"u2", <<InfoA, InfoB>>>> >>,
      << <<"u1", <<InfoA>>>>, <<"u2", <<InfoB>>>> >>,
      << <<"u1", <<InfoA2, InfoB>>>> >>,
      << <<"u1", <<InfoA>>>>, <<"u2", <<InfoB2>>>> >>,
      << <<"u1", <<InfoA, InfoA2>>>> >>,
      << <<"u2", <<InfoA>>>> >>,
      << <<"u2", <<InfoB>>>> >>,
      << <<"u1", <<InfoA>>>>, <<"u2", <<InfoA, InfoB>>>> >> }

(***************************************************************************)
(* Sequence helpers.                                                       *)
(***************************************************************************)
Range(s) == {s[i] : i \in 1..Len(s)}

RECURSIVE Flatten(_)
Flatten(ss) == IF ss = << >> THEN << >> ELSE Head(ss) \o Flatten(Tail(ss))

\* Iterator::position / find: the first index whose element satisfies P, 0 for None.
Position(s, P(_)) ==
    IF \E i \in 1..Len(s) : P(s[i])
    THEN CHOOSE i \in 1..Len(s) : P(s[i]) /\ \A j \in 1..(i - 1) : ~P(s[j])
    ELSE 0

\* Vec::retain
Retain(s, P(_)) == SelectSeq(s, P)

\* Vec::swap_remove: the last element takes the place of the removed one.
swap_remove(s, idx) ==
    LET n == Len(s) IN
    IF idx = n THEN SubSeq(s, 1, n - 1)
    ELSE [i \in 1..(n - 1) |-> IF i = idx THEN s[n] ELSE s[i]]

(***************************************************************************)
(* Subscriptions.  A Subscriber that has subscribed is known by the tag it *)
(* puts on its events: Some(uuid) for a transport subscription, None for   *)
(* the topology subscription.  Its event channel is named by the same tag. *)
(* NoSub stands for None and for a Subscriber that never subscribed.       *)
(***************************************************************************)
NoSub == [subscribed |-> FALSE, tag |-> ""]

Subscription(tag) == [subscribed |-> TRUE, tag |-> tag]

TopologyTag == "None"

\* A text that str::parse reads as the u32 n (held as hi * 2^31 + lo), and
\* a text it rejects.
Numeral(n) == [numeric |-> TRUE, val |-> n]

NotANumber == [numeric |-> FALSE, val |-> [hi |-> 0, lo |-> 0]]

\* AVStatus = Vec<(String, String)>: the cached transport fields.
TransportStatuses ==
    { << >>,
      << <<"CurrentPlayMode", NotANumber>>, <<"CurrentTrack", Numeral([hi |-> 0, lo |-> 2])>> >> }

\* SpeakerData::new
SpeakerData_new(speaker) ==
    [speaker |-> speaker,
     transport_subscription |-> NoSub,
     transport_data |-> << >>]

\* Speaker::from_device on the device found at info.location.
Speaker_from_device(info) == [device |-> [url |-> info.location], info |-> info]

(***************************************************************************)
(* State.                                                                  *)
(*   speakerdata, topology, topology_subscription, queued_event_handles    *)
(*       the fields of Controller;                                         *)
(*   event_stream   the subscriptions whose event channel run() selects on;*)
(*   rx             where the command receiver is: still in Controller.rx  *)
(*                  ("controller"), taken by run() ("run"), or dropped;    *)
(*   pc             where the controller task is;                          *)
(*   queue          the commands in the mpsc channel, oldest first;        *)
(*   callers        each caller's Zone::action future;                     *)
(*   manager        whether the Manager (the only CmdSender) is alive;     *)
(*   last           what the last handler did: which one it was, the       *)
(*                  remote steps it took in order, its result.             *)
(***************************************************************************)
VARIABLES speakerdata, topology, topology_subscription, queued_event_handles,
          event_stream, rx, pc, queue, callers, manager, last

vars == <<speakerdata, topology, topology_subscription, queued_event_handles,
          event_stream, rx, pc, queue, callers, manager, last>>

controller == <<speakerdata, topology, topology_subscription,
                queued_event_handles, event_stream>>

(***************************************************************************)
(* Registry lookups.                                                       *)
(***************************************************************************)
uuid_of(sd) == sd.speaker.info.uuid

name_of(sd) == sd.speaker.info.name

\* A lookup that tells the cases of a uuid apart.
get_speakerdata_by_exact_uuid(sds, uuid) ==
    Position(sds, LAMBDA sd : uuid_of(sd) = uuid)

\* Controller::get_speakerdata_by_uuid / get_speaker_by_uuid: index of the
\* first record whose uuid matches, 0 for None.
get_speakerdata_by_uuid(sds, uuid) ==
    Position(sds, LAMBDA sd : eq_ignore_ascii_case(uuid_of(sd), uuid))

\* Controller::get_speaker_with_name
get_speaker_with_name(sds, name) ==
    Position(sds, LAMBDA sd : eq_ignore_ascii_case(name_of(sd), name))

\* The find_map over self.topology: index of the first group that lists
\* speaker_uuid among its members, 0 for None.
group_of_uuid(topo, speaker_uuid) ==
    Position(topo, LAMBDA g :
        \E m \in 1..Len(g[2]) : eq_ignore_ascii_case(g[2][m], speaker_uuid))

\* A resolver that ignores the groups and answers with the member itself.
member_for_uuid(sds, topo, speaker_uuid) == get_speakerdata_by_uuid(sds, speaker_uuid)

\* Controller::get_coordinatordata_for_uuid / get_coordinator_for_uuid
get_coordinatordata_for_uuid(sds, topo, speaker_uuid) ==
    LET g == group_of_uuid(topo, speaker_uuid) IN
    IF g = 0 THEN 0 ELSE get_speakerdata_by_uuid(sds, topo[g][1])

\* A resolver that answers with the record named `name`, coordinator or not.
speaker_for_name(sds, topo, name) == get_speaker_with_name(sds, name)

\* A resolver that falls back on the first record when the zone is unknown.
coordinator_or_first_for_name(sds, topo, name) ==
    LET s == get_speaker_with_name(sds, name)
        c == IF s = 0 THEN 0 ELSE get_coordinatordata_for_uuid(sds, topo, uuid_of(sds[s]))
    IN IF c = 0 /\ sds # << >> THEN 1 ELSE c

\* Controller::get_coordinatordata_for_name / get_coordinator_for_name
get_coordinatordata_for_name(sds, topo, name) ==
    LET s == get_speaker_with_name(sds, name) IN
    IF s = 0 THEN 0 ELSE get_coordinatordata_for_uuid(sds, topo, uuid_of(sds[s]))

(***************************************************************************)
(* Subscriptions alive: a Subscriber lives in a record or in               *)
(* Controller.topology_subscription; dropping it ends its two tasks and    *)
(* with them its event channel.                                            *)
(***************************************************************************)
LiveSubscriptions(sds, topo_sub) ==
    { sub.tag : sub \in { s \in {sds[i].transport_subscription : i \in 1..Len(sds)}
                                  \cup {topo_sub} : s.subscribed } }

\* SelectAll drops a stream that has ended.
Tracked(streams, sds, topo_sub) == streams \cap LiveSubscriptions(sds, topo_sub)

(***************************************************************************)
(* Controller::update_from_topology.  The loop over the member infos is    *)
(* AddSpeakers: each new member is resolved (Speaker::from_speaker_info)   *)
(* and, when that succeeds, subscribed to (get_av_transport_subscription). *)
(* The operators return the set of possible outcomes                       *)
(*   [speakerdata, queued, result]                                         *)
(* over the network's answers.  An Err or Ok(None) resolution both leave   *)
(* the function through `?` with the registry as it is at that point.      *)
(***************************************************************************)
ReducedTopology(system_topology) ==
    [g \in 1..Len(system_topology) |->
        <<system_topology[g][1],
          [m \in 1..Len(system_topology[g][2]) |-> system_topology[g][2][m].uuid]>>]

MemberInfos(system_topology) ==
    Flatten([g \in 1..Len(system_topology) |-> system_topology[g][2]])

\* Controller::get_av_transport_subscription: None, or a Subscriber tagged
\* with the speaker's uuid.
get_av_transport_subscription(speaker) ==
    {NoSub, Subscription(speaker.info.uuid)}

\* A variant of the loop in which a failed subscribe ends the update.
RECURSIVE AddSpeakersOrAbort(_, _, _)
AddSpeakersOrAbort(sds, queued, infos) ==
    IF infos = << >>
    THEN {[speakerdata |-> sds, queued |-> queued, result |-> "Ok"]}
    ELSE
      LET info == Head(infos)
          idx  == get_speakerdata_by_uuid(sds, info.uuid)
      IN
      IF idx # 0
      THEN AddSpeakersOrAbort([sds EXCEPT ![idx].speaker.info = info],
                              queued, Tail(infos))
      ELSE
        {[speakerdata |-> sds, queued |-> queued, result |-> "Err"]}
        \cup
        AddSpeakersOrAbort(
            Append(sds, [SpeakerData_new(Speaker_from_device(info))
                           EXCEPT !.transport_subscription = Subscription(info.uuid)]),
            queued \cup {info.uuid}, Tail(infos))

RECURSIVE AddSpeakers(_, _, _)
AddSpeakers(sds, queued, infos) ==
    IF infos = << >>
    THEN {[speakerdata |-> sds, queued |-> queued, result |-> "Ok"]}
    ELSE
      LET info == Head(infos)
          idx  == get_speakerdata_by_uuid(sds, info.uuid)
      IN
      IF idx # 0
      THEN AddSpeakers([sds EXCEPT ![idx].speaker.info = info],
                       queued, Tail(infos))
      ELSE
        {[speakerdata |-> sds, queued |-> queued, result |-> "Err"]}
        \cup
        UNION { AddSpeakers(
                  Append(sds, [SpeakerData_new(Speaker_from_device(info))
                                 EXCEPT !.transport_subscription = sub]),
                  IF sub = NoSub THEN queued ELSE queued \cup {sub.tag},
                  Tail(infos))
                : sub \in get_av_transport_subscription(Speaker_from_device(info)) }

update_from_topology(sds, queued, system_topology) ==
    LET infos == MemberInfos(system_topology)
        kept  == Retain(sds, LAMBDA sd :
                     \E i \in 1..Len(infos) :
                         eq_ignore_ascii_case(infos[i].uuid, uuid_of(sd)))
    IN AddSpeakers(kept, queued, infos)

\* The member uuids a payload lists.
ListedUuids(system_topology) ==
    {info.uuid : info \in Range(MemberInfos(system_topology))}

\* What update_from_topology leaves behind: self.topology is replaced only
\* on the Ok path (line 144 is after every `?`).
UpdateOutcomes(sds, topo, queued, system_topology) ==
    { [speakerdata |-> o.speakerdata,
       topology    |-> IF o.result = "Ok" THEN ReducedTopology(system_topology) ELSE topo,
       queued      |-> o.queued,
       result      |-> o.result,
       listed      |-> ListedUuids(system_topology)]
      : o \in update_from_topology(sds, queued, system_topology) }

\* `?` in the place of unwrap_or_else: the error goes up.
propagate(result) == result

\* `.unwrap_or_else(|err| warn!(..))` after update_from_topology: the error
\* is logged and the caller goes on with ().
unwrap_or_else_warn(result) == "Ok"

(***************************************************************************)
(* Controller::discover_system: discover_one, then GetZoneGroupState on    *)
(* the speaker found, then update_from_topology, whose error is logged     *)
(* and dropped.  `steps` lists the remote steps in the order taken,        *)
(* `update` is what update_from_topology returned.                         *)
(***************************************************************************)
discover_system(sds, topo, queued, payloads) ==
    { [speakerdata |-> sds, topology |-> topo, queued |-> queued,
       result |-> "Err", steps |-> <<"discover_one">>,
       update |-> "none", listed |-> {}],
      [speakerdata |-> sds, topology |-> topo, queued |-> queued,
       result |-> "Err", steps |-> <<"discover_one", "zone_group_state">>,
       update |-> "none", listed |-> {}] }
    \cup
    { [speakerdata |-> o.speakerdata, topology |-> o.topology, queued |-> o.queued,
       result |-> unwrap_or_else_warn(o.result),
       steps |-> <<"discover_one", "zone_group_state", "update_from_topology">>,
       update |-> o.result, listed |-> o.listed]
      : o \in UNION { UpdateOutcomes(sds, topo, queued, t) : t \in payloads } }

(***************************************************************************)
(* Callers.  A caller is one task using Zone::action on the Manager; it    *)
(* has at most one action in flight.  callers[c] is                        *)
(*   "idle"              nothing in flight;                                *)
(*   "sending"           blocked in send().await on a full queue;          *)
(*   "sent"              command sent, waiting on the reply channel;       *)
(*   a response          the reply it received;                            *)
(*   "ControllerOffline" send failed: the receiver is gone;                *)
(*   "MessageRecvError"  the reply sender was dropped without a reply.     *)
(***************************************************************************)
NCallers == 1

Callers == 1..NCallers

\* mpsc::channel(32), scaled down.
MaxQueue == 2

\* A queued command: who sent it, and whether its reply receiver is still
\* held (the caller has not dropped the future of Zone::action).
QueuedCommand(c, alive) == [caller |-> c, alive |-> alive]

\* Dropping the receiver drops the queued commands, and with each its
\* Responder: the caller waiting on it gets a RecvError.  A sender blocked
\* on the full queue gets a SendError.
DropQueue(cs, q) ==
    [c \in Callers |->
        CASE cs[c] = "sent" /\ QueuedCommand(c, TRUE) \in Range(q) -> "MessageRecvError"
          [] cs[c] = "sending" -> "ControllerOffline"
          [] OTHER -> cs[c]]

NoLast == [handler |-> "none"]

Init ==
    /\ speakerdata = << >>
    /\ topology = << >>
    /\ topology_subscription = NoSub
    /\ queued_event_handles = {}
    /\ event_stream = {}
    /\ rx = "none"
    /\ pc = "new"
    /\ queue = << >>
    /\ callers = [c \in Callers |-> "idle"]
    /\ manager = "none"
    /\ last = NoLast

(***************************************************************************)
(* Manager::new up to the spawn: Controller::new, Controller::init.        *)
(* A failed discover_system is returned to the caller of Manager::new and  *)
(* no Manager exists.                                                      *)
(***************************************************************************)
ControllerInit(payloads) ==
    /\ pc = "new"
    /\ \E o \in discover_system(speakerdata, topology, queued_event_handles, payloads) :
         /\ speakerdata' = o.speakerdata
         /\ topology' = o.topology
         /\ queued_event_handles' = o.queued
         /\ last' = [handler |-> "init", steps |-> o.steps, result |-> o.result,
                     update |-> o.update, listed |-> o.listed]
         /\ IF o.result = "Ok"
            THEN pc' = "initialized" /\ rx' = "controller" /\ manager' = "alive"
            ELSE pc' = "init_failed" /\ UNCHANGED <<rx, manager>>
    /\ UNCHANGED <<topology_subscription, event_stream, queue, callers>>

(***************************************************************************)
(* Controller::get_a_service_and_url: Err(NoSpeakersDetected) on an empty  *)
(* registry; otherwise a random record, and Err when its device lacks the  *)
(* service.                                                                *)
(***************************************************************************)
\* A picker that makes up a device when the registry is empty.
get_any_service_and_url(sds) ==
    IF sds = << >> THEN {"l1"}
    ELSE {"MissingServiceForUPnPAction"} \cup {sds[i].speaker.device.url : i \in 1..Len(sds)}

get_a_service_and_url(sds) ==
    IF sds = << >> THEN {"NoSpeakersDetected"}
    ELSE {"MissingServiceForUPnPAction"} \cup {sds[i].speaker.device.url : i \in 1..Len(sds)}

ServiceErrors == {"NoSpeakersDetected", "MissingServiceForUPnPAction"}

(***************************************************************************)
(* Controller::run up to the loop (lines 319-327).  The two `?` return     *)
(* before self.rx.take(): the receiver then stays inside the Controller,   *)
(* which the finished task keeps as its output.                            *)
(***************************************************************************)
RunStart ==
    /\ pc = "initialized"
    /\ \E target \in get_a_service_and_url(speakerdata), subscribed \in BOOLEAN :
         IF target \in ServiceErrors \/ ~subscribed
         THEN /\ pc' = "returned_err"
              /\ last' = [handler |-> "run_start",
                          result |-> IF target \in ServiceErrors THEN target
                                     ELSE "SubscriberError"]
              /\ UNCHANGED <<controller, rx>>
         ELSE /\ topology_subscription' = Subscription(TopologyTag)
              /\ event_stream' = {TopologyTag} \cup queued_event_handles
              /\ queued_event_handles' = {}
              /\ rx' = "run"
              /\ pc' = "loop"
              /\ last' = [handler |-> "run_start", result |-> "Ok"]
              /\ UNCHANGED <<speakerdata, topology>>
    /\ UNCHANGED <<queue, callers, manager>>

(***************************************************************************)
(* The run loop (lines 328-342).  The top of every iteration drains        *)
(* queued_event_handles into event_stream (line 329) with no await between *)
(* a handler's end and the drain, so each handler below ends with it.      *)
(* `handle_event(event).await?` and `handle_zone_action(..).await?` return *)
(* from run() on Err: the local receiver is dropped and with it every      *)
(* queued command.                                                         *)
(***************************************************************************)
Drain(streams, queued, sds, topo_sub) == Tracked(streams \cup queued, sds, topo_sub)

LoopContinues ==
    /\ pc' = "loop"
    /\ UNCHANGED <<rx, queue, callers, manager>>

\* A return with an error that leaves the receiver and the queue in place.
LoopReturnsErrKeepingQueue ==
    /\ pc' = "returned_err"
    /\ UNCHANGED <<rx, queue, callers, manager>>

LoopReturnsErr ==
    /\ pc' = "returned_err"
    /\ rx' = "dropped"
    /\ queue' = << >>
    /\ callers' = DropQueue(callers, queue)
    /\ UNCHANGED manager

\* An event can come from a subscription whose channel is in event_stream.
TopologyEventReady ==
    /\ pc = "loop"
    /\ topology_subscription.subscribed
    /\ TopologyTag \in event_stream

TransportEventReady(i) ==
    /\ pc = "loop"
    /\ i \in 1..Len(speakerdata)
    /\ speakerdata[i].transport_subscription.subscribed
    /\ speakerdata[i].transport_subscription.tag \in event_stream

(***************************************************************************)
(* handle_event, TopoUpdate (lines 195-212): update_from_topology, its     *)
(* error logged and dropped.                                               *)
(***************************************************************************)
HandleTopoUpdate(payloads) ==
    /\ TopologyEventReady
    /\ \E system_topology \in payloads :
       \E o \in UpdateOutcomes(speakerdata, topology, queued_event_handles,
                               system_topology) :
         /\ speakerdata' = o.speakerdata
         /\ topology' = o.topology
         /\ event_stream' = Drain(event_stream, o.queued, o.speakerdata,
                                  topology_subscription)
         /\ queued_event_handles' = {}
         /\ last' = [handler |-> "TopoUpdate", update |-> o.result, listed |-> o.listed,
                     result |-> unwrap_or_else_warn(o.result)]
         /\ IF unwrap_or_else_warn(o.result) = "Ok" THEN LoopContinues ELSE LoopReturnsErr
    /\ UNCHANGED topology_subscription

(***************************************************************************)
(* handle_event, AVTransUpdate (lines 213-230) and update_avtransport_data *)
(* (lines 411-416): the first record with the event's uuid gets the data.  *)
(***************************************************************************)
\* A variant that gives the data to every record.
update_all_avtransport_data(sds, uuid, data) ==
    [i \in 1..Len(sds) |-> [sds[i] EXCEPT !.transport_data = data]]

update_avtransport_data(sds, uuid, data) ==
    LET idx == get_speakerdata_by_uuid(sds, uuid) IN
    IF idx = 0 THEN sds ELSE [sds EXCEPT ![idx].transport_data = data]

HandleAVTransUpdate ==
    /\ \E i \in 1..Len(speakerdata), data \in TransportStatuses :
         /\ TransportEventReady(i)
         /\ speakerdata' = update_avtransport_data(
                              speakerdata, speakerdata[i].transport_subscription.tag, data)
         /\ last' = [handler |-> "AVTransUpdate",
                     uuid |-> speakerdata[i].transport_subscription.tag,
                     result |-> "Ok"]
    /\ UNCHANGED <<topology, topology_subscription, queued_event_handles, event_stream>>
    /\ LoopContinues

(***************************************************************************)
(* handle_event, SubscribeError on ZONE_GROUP_TOPOLOGY (lines 241-257).    *)
(*   get_a_service_and_url fails          -> Err leaves the loop;          *)
(*   topology_subscription = new Subscriber, subscribe on the picked one;  *)
(*   subscribe fails -> discover_system; its Err leaves the loop, its Ok   *)
(*   ends the handler (no second subscribe).                               *)
(***************************************************************************)
HandleTopologySubscribeError(payloads) ==
    /\ TopologyEventReady
    /\ \E target \in get_a_service_and_url(speakerdata) :
         IF target \in ServiceErrors
         THEN /\ last' = [handler |-> "SubscribeError(topology)",
                          was_empty |-> speakerdata = << >>,
                          steps |-> << >>, result |-> "Err",
                          update |-> "none", listed |-> {}]
              /\ UNCHANGED controller
              /\ LoopReturnsErr
         ELSE
           \/ \* subscribe succeeds
              /\ topology_subscription' = Subscription(TopologyTag)
              /\ event_stream' = Drain(event_stream, {TopologyTag},
                                       speakerdata, topology_subscription')
              /\ last' = [handler |-> "SubscribeError(topology)",
                          was_empty |-> speakerdata = << >>,
                          steps |-> <<"subscribe">>, result |-> "Ok",
                          update |-> "none", listed |-> {}]
              /\ UNCHANGED <<speakerdata, topology, queued_event_handles>>
              /\ LoopContinues
           \/ \* subscribe fails: rediscover
              \E o \in discover_system(speakerdata, topology, queued_event_handles,
                                       payloads) :
                /\ topology_subscription' = NoSub
                /\ speakerdata' = o.speakerdata
                /\ topology' = o.topology
                /\ event_stream' = Drain(event_stream, o.queued, o.speakerdata, NoSub)
                /\ queued_event_handles' = {}
                /\ last' = [handler |-> "SubscribeError(topology)",
                            was_empty |-> speakerdata = << >>,
                            steps |-> <<"subscribe">> \o o.steps, result |-> o.result,
                            update |-> o.update, listed |-> o.listed]
                /\ IF o.result = "Ok" THEN LoopContinues ELSE LoopReturnsErr

(***************************************************************************)
(* handle_event, SubscribeError on AV_TRANSPORT (lines 258-283).           *)
(*   pop the record (swap_remove); re-resolve it from its info; when that  *)
(*   gives a speaker, subscribe to it and store the new Subscriber or      *)
(*   None; push the popped record back.                                    *)
(***************************************************************************)
\* A pop that leaves the record in the registry.
peek_speakerdata_by_uuid(sds, uuid) ==
    [popped |-> get_speakerdata_by_uuid(sds, uuid), rest |-> sds]

\* A pop that takes the first record, whatever its uuid.
pop_first_speakerdata(sds, uuid) ==
    [popped |-> IF sds = << >> THEN 0 ELSE 1,
     rest |-> IF sds = << >> THEN sds ELSE Tail(sds)]

pop_speakerdata_by_uuid(sds, uuid) ==
    LET idx == get_speakerdata_by_uuid(sds, uuid) IN
    [popped |-> idx, rest |-> IF idx = 0 THEN sds ELSE swap_remove(sds, idx)]

HandleTransportSubscribeError ==
    /\ \E i \in 1..Len(speakerdata), resolved \in BOOLEAN :
         /\ TransportEventReady(i)
         /\ LET uuid == speakerdata[i].transport_subscription.tag
                pop  == pop_speakerdata_by_uuid(speakerdata, uuid)
                sd   == speakerdata[pop.popped]
            IN
            IF pop.popped = 0
            THEN /\ UNCHANGED controller
                 /\ last' = [handler |-> "SubscribeError(transport)", uuid |-> uuid,
                             found |-> FALSE, resolved |-> FALSE, result |-> "Ok"]
            ELSE
              \E sub \in IF resolved
                         THEN get_av_transport_subscription(
                                  Speaker_from_device(sd.speaker.info))
                         ELSE {sd.transport_subscription} :
                /\ speakerdata' = Append(pop.rest, [sd EXCEPT !.transport_subscription = sub])
                /\ event_stream' = Drain(event_stream,
                                         IF resolved /\ sub.subscribed THEN {sub.tag} ELSE {},
                                         speakerdata', topology_subscription)
                /\ last' = [handler |-> "SubscribeError(transport)", uuid |-> uuid,
                            found |-> TRUE, resolved |-> resolved, result |-> "Ok"]
                /\ UNCHANGED <<topology, topology_subscription, queued_event_handles>>
    /\ LoopContinues

(***************************************************************************)
(* Numbers.  A u32 is held as hi * 2^31 + lo with hi in {0, 1}, so that    *)
(* every u32 and every i32 are written with numbers TLC can hold.          *)
(***************************************************************************)
I32Max == 2147483647

I32Min == -I32Max - 1

U32(hi, lo) == [hi |-> hi, lo |-> lo]

U32Max == U32(1, I32Max)

\* i32::try_from(u32)
try_into_i32(u) == [ok |-> u.hi = 0, val |-> IF u.hi = 0 THEN u.lo ELSE 0]

\* `target as u32` for a target that is not negative.
as_u32(n) == U32(0, n)

\* c + d on i32 overflows (c is never negative here).
add_i32_overflows(c, d) == d > 0 /\ c > I32Max - d

\* The wrapped sum a build without overflow checks computes: c + d - 2^32.
wrapping_add_i32(c, d) ==
    IF add_i32_overflows(c, d) THEN (c - I32Max - 1) + (d - I32Max - 1) ELSE c + d

add_u32_overflows(u, n) == u.hi = 1 /\ u.lo > I32Max - n

\* u + n on u32 for a small n, wrapped.
wrapping_add_u32(u, n) ==
    IF u.lo > I32Max - n
    THEN U32((u.hi + 1) % 2, (u.lo - I32Max - 1) + n)
    ELSE U32(u.hi, u.lo + n)

(***************************************************************************)
(* Zone actions.                                                           *)
(***************************************************************************)
MediaKinds == {"Apple", "Spotify", "SonosPlaylist", "SonosFavorite"}

\* An item the music service / the browsed list knows, and one it does not.
MediaItems == {"known", "unknown"}

NoMedia == [kind |-> "", item |-> ""]

MediaSources == [kind : MediaKinds, item : MediaItems]

Action(kind) == [kind |-> kind, media |-> NoMedia, number |-> 0]

MediaAction(kind, media) == [kind |-> kind, media |-> media, number |-> 0]

NumberAction(kind, number) == [kind |-> kind, media |-> NoMedia, number |-> number]

PlainKinds ==
    {"Play", "Pause", "PlayPause", "NextTrack", "PreviousTrack", "SeekTime",
     "SeekTrack", "SetRepeat", "SetShuffle", "SetCrossfade", "SetPlayMode",
     "ClearQueue", "GetQueue", "TakeSnapshot", "ApplySnapshot"}

\* The deltas SeekRelTrack is given in the model.
Deltas == {I32Min, -5, -1, 0, 1, 5, I32Max}

ZoneActions ==
    {Action("Exists")}
    \cup {Action(k) : k \in PlainKinds}
    \cup {MediaAction(k, m) : k \in {"PlayNow", "QueueAsNext"}, m \in MediaSources}
    \cup {NumberAction("SeekRelTrack", d) : d \in Deltas}

(***************************************************************************)
(* A zone action is run against the network's answers, a record `net`:    *)
(*   fail_at          which of its remote calls fails (0: none);           *)
(*   track            the Track field of a GetPositionInfo answer;         *)
(*   playing          the state a GetTransportInfo answer reports;         *)
(*   overflow_checks  whether the build panics on integer overflow.        *)
(* A remote call is recorded with its operation, the device url it is sent *)
(* to and its numeric argument.                                            *)
(***************************************************************************)
Call(op, speaker, arg) == [op |-> op, url |-> speaker.device.url, arg |-> arg]

NoArg == U32(0, 0)

\* The calls of `plan` are issued in order until one fails.
Issue(plan, fail_at) ==
    IF fail_at \in 1..Len(plan)
    THEN [calls |-> SubSeq(plan, 1, fail_at), result |-> "Err", err |-> "UPnP"]
    ELSE [calls |-> plan, result |-> "Ok", err |-> ""]

\* What follows `first` when `first` went through.
Then(first, rest) ==
    IF first.result = "Ok"
    THEN [rest EXCEPT !.calls = first.calls \o rest.calls]
    ELSE first

\* The remote calls left to fail after `first` has issued its own.
Left(net, first) ==
    [net EXCEPT !.fail_at = IF net.fail_at > Len(first.calls)
                            THEN net.fail_at - Len(first.calls) ELSE 0]

(***************************************************************************)
(* The methods a zone action runs on the coordinator it was given.  Each   *)
(* returns [calls, result, err]: the remote calls issued in order, and     *)
(* Ok, Err or Panic.                                                       *)
(***************************************************************************)
\* Speaker::track: GetPositionInfo, then `extract("Track")?.parse().unwrap()`.
Speaker_track(speaker, net) ==
    LET q == Issue(<<Call("GetPositionInfo", speaker, NoArg)>>, net.fail_at) IN
    IF q.result # "Ok"
    THEN [calls |-> q.calls, result |-> q.result, err |-> q.err, value |-> NoArg]
    ELSE IF ~net.track.numeric
         THEN [calls |-> q.calls, result |-> "Panic", err |-> "panic", value |-> NoArg]
         ELSE [calls |-> q.calls, result |-> "Ok", err |-> "", value |-> net.track.val]

\* SpeakerData::get_current_track_no: the cached CurrentTrack when the
\* status holds one, a live query otherwise.
get_current_track_no(sd, net) ==
    LET td == sd.transport_data
        k  == Position(td, LAMBDA e : e[1] = "CurrentTrack" /\ e[2].numeric)
    IN IF k # 0
       THEN [calls |-> << >>, result |-> "Ok", err |-> "", value |-> td[k][2].val]
       ELSE Speaker_track(sd.speaker, net)

\* ZoneActionSignedNExt::seek_rel_track
seek_rel_track(number, sd, net) ==
    LET t   == get_current_track_no(sd, net)
        cur == try_into_i32(t.value)
    IN
    IF t.result # "Ok" THEN [calls |-> t.calls, result |-> t.result, err |-> t.err]
    ELSE IF ~cur.ok
    THEN [calls |-> t.calls, result |-> "Err", err |-> "ZoneActionError"]
    ELSE IF add_i32_overflows(cur.val, number) /\ net.overflow_checks
    THEN [calls |-> t.calls, result |-> "Panic", err |-> "panic"]
    ELSE
      LET target == wrapping_add_i32(cur.val, number)
          seek   == Call("Seek(TRACK_NR)", sd.speaker,
                         IF target < 1 THEN U32(0, 1) ELSE as_u32(target))
      IN Then([calls |-> t.calls, result |-> "Ok", err |-> ""],
              Issue(<<seek>>, Left(net, t).fail_at))

\* MediaSource::get_uri_and_metadata: apple_/spotify_uri_and_metadata are
\* computed locally; a Sonos playlist or favourite is looked up in a list
\* browsed on the speaker.  None is [found |-> FALSE].
get_uri_and_metadata(media, speaker, net) ==
    IF media.kind \in {"Apple", "Spotify"}
    THEN [calls |-> << >>, found |-> media.item = "known"]
    ELSE LET b == Issue(<<Call("Browse", speaker, NoArg)>>, net.fail_at) IN
         [calls |-> b.calls, found |-> b.result = "Ok" /\ media.item = "known"]

\* MediaSource::queue_as_next.  Line 43: the closure of find_map returns
\* Some(v) for the first entry whatever its key.
queue_as_next(media, sd, net) ==
    LET td == sd.transport_data
        t  == IF td # << >>
              THEN IF td[1][2].numeric
                   THEN [calls |-> << >>, result |-> "Ok", err |-> "",
                         value |-> td[1][2].val]
                   ELSE [calls |-> << >>, result |-> "Err", err |-> "ContentNotFound",
                         value |-> NoArg]
              ELSE Speaker_track(sd.speaker, net)
        m  == get_uri_and_metadata(media, sd.speaker, Left(net, t))
        sofar == [calls |-> t.calls \o m.calls, result |-> "Ok", err |-> ""]
    IN
    IF t.result # "Ok" THEN [calls |-> t.calls, result |-> t.result, err |-> t.err]
    ELSE IF ~m.found
    THEN [calls |-> sofar.calls, result |-> "Err", err |-> "ContentNotFound"]
    ELSE IF add_u32_overflows(t.value, 1) /\ net.overflow_checks
    THEN [calls |-> sofar.calls, result |-> "Panic", err |-> "panic"]
    ELSE Then(sofar,
              Issue(<<Call("AddURIToQueue", sd.speaker, wrapping_add_u32(t.value, 1))>>,
                    Left(net, sofar).fail_at))

\* A variant of play_now that empties the queue before it looks the media up.
play_now_clearing_first(media, sd, net) ==
    LET c == Issue(<<Call("RemoveAllTracksFromQueue", sd.speaker, NoArg)>>, net.fail_at)
        m == get_uri_and_metadata(media, sd.speaker, Left(net, c))
        sofar == [calls |-> c.calls \o m.calls, result |-> "Ok", err |-> ""]
    IN
    IF c.result # "Ok" THEN c
    ELSE IF ~m.found
    THEN [calls |-> sofar.calls, result |-> "Err", err |-> "ContentNotFound"]
    ELSE Then(sofar,
              Issue(<<Call("AddURIToQueue", sd.speaker, NoArg),
                      Call("SetAVTransportURI", sd.speaker, NoArg),
                      Call("Play", sd.speaker, NoArg)>>,
                    Left(net, sofar).fail_at))

\* MediaSource::play_now
play_now(media, sd, net) ==
    LET m == get_uri_and_metadata(media, sd.speaker, net)
        sofar == [calls |-> m.calls, result |-> "Ok", err |-> ""]
    IN
    IF ~m.found
    THEN [calls |-> m.calls, result |-> "Err", err |-> "ContentNotFound"]
    ELSE Then(sofar,
              Issue(<<Call("RemoveAllTracksFromQueue", sd.speaker, NoArg),
                      Call("AddURIToQueue", sd.speaker, NoArg),
                      Call("SetAVTransportURI", sd.speaker, NoArg),
                      Call("Play", sd.speaker, NoArg)>>,
                    Left(net, sofar).fail_at))

\* Snapshot::from_speaker: four queries joined, taken here in their order;
\* Speaker::track is one of them.
Speaker_snapshot(speaker, net) ==
    LET q == Issue(<<Call("GetVolume", speaker, NoArg),
                     Call("GetPositionInfo", speaker, NoArg),
                     Call("GetTransportInfo", speaker, NoArg),
                     Call("GetMediaInfo", speaker, NoArg)>>, net.fail_at)
    IN IF Len(q.calls) >= 2 /\ net.fail_at # 2 /\ ~net.track.numeric
       THEN [calls |-> q.calls, result |-> "Panic", err |-> "panic"]
       ELSE q

\* Snapshot::apply of a snapshot that holds every field.
Snapshot_apply(speaker, net) ==
    Issue(<<Call("SetVolume", speaker, NoArg),
            Call("SetAVTransportURI", speaker, NoArg),
            Call("Seek(TRACK_NR)", speaker, U32(0, 1)),
            Call("Seek(REL_TIME)", speaker, NoArg),
            Call(IF net.playing THEN "Play" ELSE "Pause", speaker, NoArg)>>, net.fail_at)

\* Speaker::play_or_pause
play_or_pause(speaker, net) ==
    Issue(<<Call("GetTransportInfo", speaker, NoArg),
            Call(IF net.playing THEN "Pause" ELSE "Play", speaker, NoArg)>>, net.fail_at)

\* Speaker::set_repeat_mode / set_shuffle: playback_mode, set_playback_mode.
set_repeat_or_shuffle(speaker, net) ==
    Issue(<<Call("GetTransportSettings", speaker, NoArg),
            Call("SetPlayMode", speaker, NoArg)>>, net.fail_at)

\* The Speaker methods that are one remote call.
OneCall ==
    [Play |-> "Play", Pause |-> "Pause", NextTrack |-> "Next",
     PreviousTrack |-> "Previous", SeekTime |-> "Seek(REL_TIME)",
     SeekTrack |-> "Seek(TRACK_NR)", SetCrossfade |-> "SetCrossfadeMode",
     SetPlayMode |-> "SetPlayMode", ClearQueue |-> "RemoveAllTracksFromQueue",
     GetQueue |-> "Browse"]

\* `$data.$method($payload)` / `$payload.$method()` of the arms of
\* handle_action, on the coordinator record it resolved.
Method(action, sd, net) ==
    CASE action.kind = "PlayNow"      -> play_now(action.media, sd, net)
      [] action.kind = "QueueAsNext"  -> queue_as_next(action.media, sd, net)
      [] action.kind = "SeekRelTrack" -> seek_rel_track(action.number, sd, net)
      [] action.kind = "PlayPause"    -> play_or_pause(sd.speaker, net)
      [] action.kind \in {"SetRepeat", "SetShuffle"}
                                      -> set_repeat_or_shuffle(sd.speaker, net)
      [] action.kind = "TakeSnapshot" -> Speaker_snapshot(sd.speaker, net)
      [] action.kind = "ApplySnapshot" -> Snapshot_apply(sd.speaker, net)
      [] OTHER -> Issue(<<Call(OneCall[action.kind], sd.speaker, NoArg)>>, net.fail_at)

\* `-> $res($returnval)`: the response an arm sends when its method is Ok.
PositiveResponse(action) ==
    CASE action.kind = "GetQueue" -> "Queue"
      [] action.kind = "TakeSnapshot" -> "Snapshot"
      [] OTHER -> "Ok"

(***************************************************************************)
(* ZoneAction::handle_action (and the action! macro).  It returns          *)
(*   coordinator  the index of the record the action ran on, 0 for none;   *)
(*   calls        the remote calls issued;                                 *)
(*   reply        the Response given to tx.send, "none" when none was;     *)
(*   result       "Ok" for Ok(()), "Panic" when the task unwound.          *)
(***************************************************************************)
handle_action(sds, topo, name, action, net) ==
    IF action.kind = "Exists"
    THEN [coordinator |-> 0, calls |-> << >>, err |-> "",
          reply |-> IF \E i \in 1..Len(sds) : name_of(sds[i]) = name
                    THEN "Ok" ELSE "NotOk",
          result |-> "Ok"]
    ELSE
      LET c == get_coordinatordata_for_name(sds, topo, name) IN
      IF c = 0
      THEN [coordinator |-> 0, calls |-> << >>, err |-> "unresolved",
            reply |-> "NotOk", result |-> "Ok"]
      ELSE
        LET m == Method(action, sds[c], net) IN
        [coordinator |-> c, calls |-> m.calls, err |-> m.err,
         reply |-> CASE m.result = "Ok" -> PositiveResponse(action)
                     [] m.result = "Err" -> "NotOk"
                     [] OTHER -> "none",
         result |-> IF m.result = "Panic" THEN "Panic" ELSE "Ok"]

(***************************************************************************)
(* Zone::action (manager.rs 52-62).  A Zone borrows the Manager, so an     *)
(* action is submitted only while the Manager is alive.  send() fails when *)
(* the receiver is gone, waits while the queue is full, and otherwise      *)
(* queues the command; then the caller awaits the reply.  The name and the *)
(* action of a command are read by nobody before the loop takes it, so     *)
(* the queue holds the caller and the handler draws the rest.              *)
(***************************************************************************)
Submit(c) ==
    /\ manager = "alive"
    /\ callers[c] \notin {"sending", "sent"}
    /\ IF rx = "dropped"
       THEN callers' = [callers EXCEPT ![c] = "ControllerOffline"] /\ UNCHANGED queue
       ELSE IF Len(queue) < MaxQueue
       THEN /\ callers' = [callers EXCEPT ![c] = "sent"]
            /\ queue' = Append(queue, QueuedCommand(c, TRUE))
       ELSE callers' = [callers EXCEPT ![c] = "sending"] /\ UNCHANGED queue
    /\ UNCHANGED <<controller, rx, pc, manager, last>>

\* A sender that waited gets the slot a received command left.
SendCompletes(c) ==
    /\ callers[c] = "sending"
    /\ rx # "dropped"
    /\ Len(queue) < MaxQueue
    /\ callers' = [callers EXCEPT ![c] = "sent"]
    /\ queue' = Append(queue, QueuedCommand(c, TRUE))
    /\ UNCHANGED <<controller, rx, pc, manager, last>>

\* The caller drops the future of Zone::action before it has completed.
CancelAction(c) ==
    /\ callers[c] \in {"sending", "sent"}
    /\ callers' = [callers EXCEPT ![c] = "idle"]
    /\ queue' = [i \in 1..Len(queue) |->
                    IF queue[i] = QueuedCommand(c, TRUE)
                    THEN QueuedCommand(c, FALSE) ELSE queue[i]]
    /\ UNCHANGED <<controller, rx, pc, manager, last>>

(***************************************************************************)
(* The command branch of select! (lines 331-334): handle_zone_action on    *)
(* the oldest command.  A reply sent to a dropped receiver is lost and the *)
(* error ignored.  A panic unwinds the task: run()'s receiver and the      *)
(* Responder in hand are dropped.                                          *)
(***************************************************************************)
Command(name, action) == [name |-> name, action |-> action]

\* A variant of the command branch in which a transport event is handled
\* while the action's remote calls are awaited.
HandleCommandAmidEvents(commands, answers) ==
    /\ pc = "loop"
    /\ queue # << >>
    /\ \E cmd \in commands, net \in answers :
         LET c == Head(queue).caller
             o == handle_action(speakerdata, topology, cmd.name, cmd.action, net)
             replied == IF Head(queue).alive
                        THEN [callers EXCEPT ![c] = IF o.reply # "none" THEN o.reply
                                                    ELSE "MessageRecvError"]
                        ELSE callers
         IN
         /\ last' = [handler |-> "DoZoneAction", caller |-> c,
                     alive |-> Head(queue).alive, name |-> cmd.name,
                     action |-> cmd.action, coordinator |-> o.coordinator,
                     calls |-> o.calls, err |-> o.err, reply |-> o.reply,
                     result |-> o.result]
         /\ IF o.result = "Ok"
            THEN /\ queue' = Tail(queue)
                 /\ callers' = replied
                 /\ UNCHANGED <<rx, pc>>
            ELSE /\ pc' = "panicked"
                 /\ rx' = "dropped"
                 /\ queue' = << >>
                 /\ callers' = DropQueue(replied, Tail(queue))
    /\ \E data \in TransportStatuses :
         speakerdata' = [i \in 1..Len(speakerdata) |->
                            IF speakerdata[i].transport_subscription.subscribed
                            THEN [speakerdata[i] EXCEPT !.transport_data = data]
                            ELSE speakerdata[i]]
    /\ UNCHANGED <<topology, topology_subscription, queued_event_handles,
                   event_stream, manager>>

\* A variant of the command branch that takes the newest command.
HandleNewestCommand(commands, answers) ==
    /\ pc = "loop"
    /\ queue # << >>
    /\ \E cmd \in commands, net \in answers :
         LET newest == queue[Len(queue)]
             others == SubSeq(queue, 1, Len(queue) - 1)
             c == newest.caller
             o == handle_action(speakerdata, topology, cmd.name, cmd.action, net)
             replied == IF newest.alive
                        THEN [callers EXCEPT ![c] = IF o.reply # "none" THEN o.reply
                                                    ELSE "MessageRecvError"]
                        ELSE callers
         IN
         /\ last' = [handler |-> "DoZoneAction", caller |-> c,
                     alive |-> newest.alive, name |-> cmd.name,
                     action |-> cmd.action, coordinator |-> o.coordinator,
                     calls |-> o.calls, err |-> o.err, reply |-> o.reply,
                     result |-> o.result]
         /\ IF o.result = "Ok"
            THEN /\ queue' = others
                 /\ callers' = replied
                 /\ UNCHANGED <<rx, pc>>
            ELSE /\ pc' = "panicked"
                 /\ rx' = "dropped"
                 /\ queue' = << >>
                 /\ callers' = DropQueue(replied, others)
    /\ UNCHANGED <<controller, manager>>

HandleCommand(commands, answers) ==
    /\ pc = "loop"
    /\ queue # << >>
    /\ \E cmd \in commands, net \in answers :
         LET c == Head(queue).caller
             o == handle_action(speakerdata, topology, cmd.name, cmd.action, net)
             replied == IF Head(queue).alive
                        THEN [callers EXCEPT ![c] = IF o.reply # "none" THEN o.reply
                                                    ELSE "MessageRecvError"]
                        ELSE callers
         IN
         /\ last' = [handler |-> "DoZoneAction", caller |-> c,
                     alive |-> Head(queue).alive, name |-> cmd.name,
                     action |-> cmd.action, coordinator |-> o.coordinator,
                     calls |-> o.calls, err |-> o.err, reply |-> o.reply,
                     result |-> o.result]
         /\ IF o.result = "Ok"
            THEN /\ queue' = Tail(queue)
                 /\ callers' = replied
                 /\ UNCHANGED <<rx, pc>>
            ELSE /\ pc' = "panicked"
                 /\ rx' = "dropped"
                 /\ queue' = << >>
                 /\ callers' = DropQueue(replied, Tail(queue))
    /\ UNCHANGED <<controller, manager>>

(***************************************************************************)
(* Manager::get_zone (manager.rs 105-114) on what Zone::action(Exists)     *)
(* gave: an error of Zone::action goes up through `?`, Response::Ok gives  *)
(* the Zone, any other response ZoneDoesNotExist.                          *)
(***************************************************************************)
ActionErrors == {"ControllerNotInitialized", "ControllerOffline", "MessageRecvError"}

\* A variant of get_zone that hands out the Zone on any response.
get_zone_on_any_response(outcome) ==
    IF outcome \in ActionErrors THEN outcome ELSE "Zone"

get_zone(outcome) ==
    CASE outcome \in ActionErrors -> outcome
      [] outcome = "Ok" -> "Zone"
      [] OTHER -> "ZoneDoesNotExist"

(***************************************************************************)
(* Drop for Manager (manager.rs 117-123): abort() on the task's handle,    *)
(* then the CmdSender is dropped with the Manager.  No Zone::action is in  *)
(* flight then, each borrows the Manager.  The abort takes the task at its *)
(* next suspension; a task that is not suspended runs on until then, and   *)
(* sees the closed queue if it gets to rx.recv() first (line 335).         *)
(***************************************************************************)
DropManager ==
    /\ manager = "alive"
    /\ \A c \in Callers : callers[c] \notin {"sending", "sent"}
    /\ manager' = "dropped"
    /\ UNCHANGED <<controller, rx, pc, queue, callers, last>>

Abort ==
    /\ manager = "dropped"
    /\ pc \in {"initialized", "loop"}
    /\ pc' = "aborted"
    /\ rx' = "dropped"
    /\ queue' = << >>
    /\ callers' = DropQueue(callers, queue)
    /\ UNCHANGED <<controller, manager, last>>

\* A variant of the break that does not wait for the queue to be empty.
LoopBreakEarly ==
    /\ pc = "loop"
    /\ manager = "dropped"
    /\ pc' = "returned_ok"
    /\ rx' = "dropped"
    /\ UNCHANGED <<controller, queue, callers, manager, last>>

LoopBreak ==
    /\ pc = "loop"
    /\ manager = "dropped"
    /\ queue = << >>
    /\ pc' = "returned_ok"
    /\ rx' = "dropped"
    /\ UNCHANGED <<controller, queue, callers, manager, last>>

(***************************************************************************)
(* The registry and its events alone, over every payload of the model.     *)
(***************************************************************************)
NextEvents ==
    \/ ControllerInit(TopologyPayloads)
    \/ RunStart
    \/ HandleTopoUpdate(TopologyPayloads)
    \/ HandleAVTransUpdate
    \/ HandleTopologySubscribeError(TopologyPayloads)
    \/ HandleTransportSubscribeError

SpecEvents == Init /\ [][NextEvents]_vars

(***************************************************************************)
(* The whole system: callers, the Manager, the loop with commands and      *)
(* events.                                                                 *)
(***************************************************************************)
SystemPayloads ==
    { << >>,
      << <<"u1", <<InfoA, InfoB>>>> >>,
      << <<"u1", <<InfoA>>>>, <<"u2", <<InfoB2>>>> >>,
      << <<"u2", <<InfoA>>>> >> }

ZoneNames == {"Kitchen", "kitchen", "Den", "Attic"}

SystemCommands ==
    { Command("Den", MediaAction("PlayNow", [kind |-> "SonosPlaylist", item |-> "known"])),
      Command("Kitchen", Action("Play")),
      Command("kitchen", Action("Exists")),
      Command("Den", NumberAction("SeekRelTrack", I32Max)),
      Command("Kitchen", MediaAction("QueueAsNext", [kind |-> "Spotify", item |-> "unknown"])),
      Command("Attic", Action("Pause")) }

SystemAnswers ==
    [fail_at : {0, 1}, track : {Numeral(U32(0, 1))}, playing : {TRUE},
     overflow_checks : BOOLEAN]

Next ==
    \/ ControllerInit(SystemPayloads)
    \/ RunStart
    \/ HandleTopoUpdate(SystemPayloads)
    \/ HandleAVTransUpdate
    \/ HandleTopologySubscribeError(SystemPayloads)
    \/ HandleTransportSubscribeError
    \/ \E c \in Callers : Submit(c)
    \/ \E c \in Callers : SendCompletes(c)
    \/ \E c \in Callers : CancelAction(c)
    \/ HandleCommand(SystemCommands, SystemAnswers)
    \/ DropManager
    \/ Abort
    \/ LoopBreak

Spec == Init /\ [][Next]_vars

(***************************************************************************)
(* The whole system with its scheduling.  The controller task is polled    *)
(* whenever it can go on: run() starts once spawned, and select! (line     *)
(* 330) polls its ready branches in random order, so a command branch that *)
(* stays ready is taken in the end.  Events and callers come as they will, *)
(* and the abort of Drop for Manager may or may not catch the task.        *)
(***************************************************************************)
FairPayloads == { << >>, << <<"u1", <<InfoA, InfoB>>>> >> }

FairCommands ==
    { Command("Kitchen", Action("Play")),
      Command("Den", NumberAction("SeekRelTrack", I32Max)) }

FairAnswers ==
    [fail_at : {0, 1}, track : {Numeral(U32(0, 1))}, playing : {TRUE},
     overflow_checks : BOOLEAN]

NextFair ==
    \/ ControllerInit(FairPayloads)
    \/ RunStart
    \/ HandleTopoUpdate(FairPayloads)
    \/ HandleAVTransUpdate
    \/ HandleTopologySubscribeError(FairPayloads)
    \/ HandleTransportSubscribeError
    \/ \E c \in Callers : Submit(c)
    \/ \E c \in Callers : SendCompletes(c)
    \/ \E c \in Callers : CancelAction(c)
    \/ HandleCommand(FairCommands, FairAnswers)
    \/ DropManager
    \/ Abort
    \/ LoopBreak

\* The command branch as a step, and when it can be taken: a command is
\* handled whenever the loop is running and the queue holds one, and the
\* step always shortens the queue.
TakeCommand ==
    /\ UNCHANGED <<controller, manager>>
    /\ HandleCommand(FairCommands, FairAnswers)

CommandReady == pc = "loop" /\ queue # << >>

\* WF_vars(TakeCommand), with CommandReady written for ENABLED <<TakeCommand>>_vars.
FairCommandBranch == []<>(~CommandReady) \/ []<><<TakeCommand>>_vars

SpecFair ==
    /\ Init
    /\ [][NextFair]_vars
    /\ WF_vars(RunStart)
    /\ WF_vars(LoopBreak)
    /\ FairCommandBranch

(***************************************************************************)
(* seek_rel_track alone, on a record and a delta drawn from the extremes   *)
(* of u32 and i32 and values between.                                      *)
(***************************************************************************)
SeekTracks ==
    {U32(0, 0), U32(0, 1), U32(0, 2), U32(0, 5), U32(0, I32Max - 1), U32(0, I32Max),
     U32(1, 0), U32Max}

SeekRelTrackCall ==
    \E c \in SeekTracks, d \in Deltas, cached \in BOOLEAN,
       fail_at \in 0..2, overflow_checks \in BOOLEAN :
      LET sd  == [SpeakerData_new(Speaker_from_device(InfoA)) EXCEPT
                    !.transport_data =
                        IF cached THEN << <<"CurrentTrack", Numeral(c)>> >> ELSE << >>]
          net == [fail_at |-> fail_at, track |-> Numeral(c), playing |-> FALSE,
                  overflow_checks |-> overflow_checks]
          t   == get_current_track_no(sd, net)
      IN
      /\ last' = [handler |-> "seek_rel_track", current |-> c, delta |-> d,
                  track_known |-> t.result = "Ok",
                  out |-> seek_rel_track(d, sd, net)]
      /\ UNCHANGED <<controller, rx, pc, queue, callers, manager>>

NextSeek == SeekRelTrackCall

SpecSeek == Init /\ [][NextSeek]_vars

(***************************************************************************)
(* queue_as_next alone, on a record whose cached status is drawn from      *)
(* statuses with and without a CurrentTrack entry, in either place.        *)
(***************************************************************************)
QueueStatuses ==
    { << >>,
      << <<"CurrentTrack", Numeral(U32(0, 2))>> >>,
      << <<"CurrentPlayMode", NotANumber>>, <<"CurrentTrack", Numeral(U32(0, 2))>> >>,
      << <<"NumberOfTracks", Numeral(U32(0, 9))>>, <<"CurrentTrack", Numeral(U32(0, 2))>> >>,
      << <<"NumberOfTracks", Numeral(U32(0, 9))>> >> }

QueueAsNextCall ==
    \E status \in QueueStatuses, media \in MediaSources, fail_at \in 0..3,
       track \in {U32(0, 0), U32(0, 4)} :
      LET sd  == [SpeakerData_new(Speaker_from_device(InfoA)) EXCEPT
                    !.transport_data = status]
          net == [fail_at |-> fail_at, track |-> Numeral(track), playing |-> FALSE,
                  overflow_checks |-> TRUE]
      IN
      /\ last' = [handler |-> "queue_as_next", status |-> status, media |-> media,
                  track |-> track, fail_at |-> fail_at,
                  out |-> queue_as_next(media, sd, net)]
      /\ UNCHANGED <<controller, rx, pc, queue, callers, manager>>

NextQueueAsNext == QueueAsNextCall

SpecQueueAsNext == Init /\ [][NextQueueAsNext]_vars

(***************************************************************************)
(* The Subscriber of controller.rs (lines 50-57, 314-423), alone.  In this *)
(* specification topology_subscription holds the struct's fields and       *)
(* event_stream the tasks it has spawned that are still running, each      *)
(* named with the sid it serves.  An AbortCallback is held (TRUE) or has   *)
(* been taken (FALSE); calling it, or dropping it, ends its task: the      *)
(* oneshot of spawn_interruptable is signalled, and the task is over once  *)
(* the select of its tokio task is polled again.  queued_event_handles     *)
(* holds the tasks that were signalled and have not been polled since.     *)
(***************************************************************************)
NoneField == "None"

Subscriber_default ==
    [service |-> NoneField, url |-> NoneField, sid |-> NoneField,
     abort_listener |-> FALSE, abort_timer |-> FALSE]

SubscriberServices == {"ZoneGroupTopology", "AVTransport"}

SubscriberUrls == {"l1", "l2", "l3"}

Sids == {"uuid:1", "uuid:2", "uuid:3"}

\* What the device answers to SUBSCRIBE: a sid, or an error.
SubscribeAnswers == Sids \cup {"Err"}

\* What the device answers to UNSUBSCRIBE: success, an HTTP error status
\* (412 Precondition Failed: the subscription has already lapsed), or an
\* error of another kind (the request did not get through).
HttpErrorCode(code) == [kind |-> "HttpErrorCode", code |-> code]

UnsubscribeAnswers ==
    {[kind |-> "Ok", code |-> 0], HttpErrorCode(412), HttpErrorCode(500),
     [kind |-> "NetworkError", code |-> 0]}

ListenerTask(sid) == <<"listener", sid>>

TimerTask(sid) == <<"timer", sid>>

\* A variant of subscribe under which the tasks already running go on.
subscribe_keeping_tasks(sub, tasks, service, url, answer) ==
    IF answer = "Err"
    THEN [sub |-> sub, tasks |-> tasks, result |-> "UPnP"]
    ELSE [sub |-> [service |-> service, url |-> url, sid |-> answer,
                   abort_listener |-> TRUE, abort_timer |-> TRUE],
          tasks |-> tasks \cup {<<"listener", answer>>, <<"timer", answer>>},
          result |-> "Ok"]

\* Subscriber::subscribe: on Err nothing is touched; on Ok the fields are
\* set and the two tasks spawned.  The AbortCallbacks replaced are dropped,
\* and with each its oneshot sender: the select of spawn_interruptable
\* (lines 366-369) then ends the task it guarded.
Subscriber_subscribe(sub, tasks, service, url, answer) ==
    IF answer = "Err"
    THEN [sub |-> sub, tasks |-> tasks, result |-> "UPnP"]
    ELSE [sub |-> [service |-> service, url |-> url, sid |-> answer,
                   abort_listener |-> TRUE, abort_timer |-> TRUE],
          tasks |-> {ListenerTask(answer), TimerTask(answer)},
          result |-> "Ok"]

\* A variant of terminate_tasks that leaves the renewal timer alone.
terminate_listener_only(sub, tasks) ==
    [sub |-> [sub EXCEPT !.abort_listener = FALSE],
     tasks |-> {t \in tasks : t[1] # "listener"},
     trace |-> IF sub.abort_listener THEN <<"abort_listener">> ELSE << >>,
     result |-> IF sub.abort_listener THEN "Ok" ELSE "SubscriberError"]

\* A variant of terminate_tasks for which calling the handle of a task
\* that is no longer running counts as an error.
terminate_running_tasks(sub, tasks) ==
    [sub |-> [sub EXCEPT !.abort_listener = FALSE, !.abort_timer = FALSE],
     tasks |-> {t \in tasks : /\ ~(sub.abort_listener /\ t[1] = "listener")
                              /\ ~(sub.abort_timer /\ t[1] = "timer")},
     trace |-> (IF sub.abort_listener THEN <<"abort_listener">> ELSE << >>)
               \o (IF sub.abort_timer THEN <<"abort_timer">> ELSE << >>),
     result |-> IF /\ sub.abort_listener /\ sub.abort_timer
                   /\ \E t \in tasks : t[1] = "listener"
                   /\ \E t \in tasks : t[1] = "timer"
                THEN "Ok" ELSE "SubscriberError"]

\* Subscriber::terminate_tasks: both handles are taken; each one held is
\* called; a missing one makes the result an error.
terminate_tasks(sub, tasks) ==
    [sub |-> [sub EXCEPT !.abort_listener = FALSE, !.abort_timer = FALSE],
     tasks |-> {t \in tasks : /\ ~(sub.abort_listener /\ t[1] = "listener")
                              /\ ~(sub.abort_timer /\ t[1] = "timer")},
     trace |-> (IF sub.abort_listener THEN <<"abort_listener">> ELSE << >>)
               \o (IF sub.abort_timer THEN <<"abort_timer">> ELSE << >>),
     result |-> IF sub.abort_listener /\ sub.abort_timer THEN "Ok"
                ELSE "SubscriberError"]

\* Subscriber::unsubscribe: the `?` on a missing service, url or sid leaves
\* before any call; otherwise the three are taken and the call is made.
Subscriber_unsubscribe(sub, answer) ==
    IF sub.service = NoneField
    THEN [sub |-> sub, trace |-> << >>, result |-> "SubscriberError"]
    ELSE IF sub.url = NoneField
    THEN [sub |-> [sub EXCEPT !.service = NoneField], trace |-> << >>,
          result |-> "SubscriberError"]
    ELSE IF sub.sid = NoneField
    THEN [sub |-> [sub EXCEPT !.service = NoneField, !.url = NoneField],
          trace |-> << >>, result |-> "SubscriberError"]
    ELSE [sub |-> [sub EXCEPT !.service = NoneField, !.url = NoneField,
                              !.sid = NoneField],
          trace |-> <<"unsubscribe">>,
          result |-> IF answer.kind = "Ok" THEN "Ok" ELSE "UPnP"]

\* res.and(Err(e)): the first error stays.
Result_and(res, e) == IF res = "Ok" THEN e ELSE res

\* A variant of shutdown that hands every unsubscribe error up.
shutdown_propagating(sub, tasks, answer) ==
    LET t == terminate_tasks(sub, tasks)
        u == Subscriber_unsubscribe(t.sub, answer)
    IN [sub |-> u.sub, tasks |-> t.tasks, trace |-> t.trace \o u.trace,
        result |-> Result_and(t.result, u.result)]

\* Subscriber::shutdown (lines 408-416).
Subscriber_shutdown(sub, tasks, answer) ==
    LET t == terminate_tasks(sub, tasks)
        u == Subscriber_unsubscribe(t.sub, answer)
    IN [sub |-> u.sub, tasks |-> t.tasks, trace |-> t.trace \o u.trace,
        result |-> IF u.result = "Ok" THEN t.result
                   ELSE IF u.trace # << >> /\ answer.kind = "HttpErrorCode"
                   THEN t.result
                   ELSE Result_and(t.result, u.result)]

\* Subscriber::default(), the rest as Init leaves it.
InitSubscriber ==
    /\ topology_subscription = Subscriber_default
    /\ event_stream = {}
    /\ speakerdata = << >>
    /\ topology = << >>
    /\ queued_event_handles = {}
    /\ rx = "none"
    /\ pc = "new"
    /\ queue = << >>
    /\ callers = [c \in Callers |-> "idle"]
    /\ manager = "none"
    /\ last = NoLast

Unused == <<speakerdata, topology, rx, pc, queue, callers, manager>>

\* The items the notification stream of a subscription yields to the
\* listener: state variables with a ZoneGroupState that decodes, with one
\* that does not, without ZoneGroupState, or an error for a notification
\* that could not be parsed; and the end of the stream.
StreamItems == {"ZoneGroupState", "BadZoneGroupState", "NoZoneGroupState", "StreamErr"}

StreamEnd == "StreamEnd"

\* One turn of listen_task (lines 330-338): `while let Some(Ok(..))` leaves
\* the loop on an error item as on the end of the stream, and ListenerDown
\* is sent; get("ZoneGroupState").unwrap() panics when the variable is
\* missing; a topology that does not decode is skipped.
listen_task(item) ==
    CASE item = "ZoneGroupState" ->
           [emit |-> <<"TopologyUpdate">>, state |-> "listening"]
      [] item = "BadZoneGroupState" ->
           [emit |-> << >>, state |-> "listening"]
      [] item = "NoZoneGroupState" ->
           [emit |-> << >>, state |-> "panicked"]
      [] item \in {"StreamErr", StreamEnd} ->
           [emit |-> <<"ListenerDown">>, state |-> "finished"]

\* What the device answers to a renewal.
RenewAnswers == {"Ok", "Err"}

\* A variant of timer_task that gives up at the first failed renewal.
timer_task_until_failure(answer) ==
    [emit |-> IF answer = "Err" THEN <<"ReSubscribe">> ELSE << >>,
     state |-> IF answer = "Err" THEN "finished" ELSE "sleeping"]

\* One turn of timer_task (lines 342-353): a failed renewal sends
\* ReSubscribe, and the loop goes on either way.
timer_task(answer) ==
    [emit |-> IF answer = "Err" THEN <<"ReSubscribe">> ELSE << >>,
     state |-> "sleeping"]

\* The tasks an operation signalled, those it took out of the running,
\* each kept by its kind and the operation that signalled it.
Signalled(before, after, by) ==
    queued_event_handles \cup {<<t[1], by>> : t \in before \ after}

SubscribeCall ==
    /\ \E service \in SubscriberServices, url \in SubscriberUrls,
          answer \in SubscribeAnswers :
         LET o == Subscriber_subscribe(topology_subscription, event_stream,
                                       service, url, answer) IN
         /\ topology_subscription' = o.sub
         /\ event_stream' = o.tasks
         /\ queued_event_handles' = Signalled(event_stream, o.tasks, "subscribe")
         /\ last' = [handler |-> "subscribe", over |-> event_stream,
                     result |-> o.result]
    /\ UNCHANGED Unused

ShutdownCall ==
    /\ \E answer \in UnsubscribeAnswers :
         LET o == Subscriber_shutdown(topology_subscription, event_stream, answer) IN
         /\ topology_subscription' = o.sub
         /\ event_stream' = o.tasks
         /\ queued_event_handles' = Signalled(event_stream, o.tasks, "shutdown")
         /\ last' = [handler |-> "shutdown", before |-> topology_subscription,
                     over |-> event_stream,
                     answer |-> answer, trace |-> o.trace, result |-> o.result]
    /\ UNCHANGED Unused

\* The notification stream ends: the listener sends ListenerDown and
\* finishes on its own (lines 329-337); its AbortCallback stays held.
ListenerEnds ==
    /\ \E t \in event_stream :
         /\ t[1] = "listener"
         /\ event_stream' = event_stream \ {t}
         /\ last' = [handler |-> "listener_down", task |-> t, item |-> StreamEnd,
                     emit |-> listen_task(StreamEnd).emit,
                     state |-> listen_task(StreamEnd).state, signalled |-> FALSE]
    /\ UNCHANGED <<topology_subscription, queued_event_handles, Unused>>

\* The stream yields an item to a running listener.
ListenerNext ==
    /\ \E t \in event_stream, item \in StreamItems :
         LET o == listen_task(item) IN
         /\ t[1] = "listener"
         /\ event_stream' = IF o.state = "listening" THEN event_stream
                            ELSE event_stream \ {t}
         /\ last' = [handler |-> "listener", task |-> t, item |-> item,
                     emit |-> o.emit, state |-> o.state, signalled |-> FALSE]
    /\ UNCHANGED <<topology_subscription, queued_event_handles, Unused>>

\* The sleep of a running renewal task is over and it renews.
TimerRenews ==
    /\ \E t \in event_stream, answer \in RenewAnswers :
         LET o == timer_task(answer) IN
         /\ t[1] = "timer"
         /\ event_stream' = IF o.state = "sleeping" THEN event_stream
                            ELSE event_stream \ {t}
         /\ last' = [handler |-> "timer", task |-> t, item |-> answer,
                     emit |-> o.emit, state |-> o.state, signalled |-> FALSE]
    /\ UNCHANGED <<topology_subscription, queued_event_handles, Unused>>

\* A signalled task is polled (spawn_interruptable, lines 364-369).  The
\* select has no order among its branches: it ends the task at once, or
\* polls the task first, which then takes a turn if it has one ready and
\* is ended after it.
SignalledTaskPolled ==
    /\ \E t \in queued_event_handles :
         /\ queued_event_handles' = queued_event_handles \ {t}
         /\ \/ last' = [handler |-> "aborted", task |-> t, item |-> "none",
                         emit |-> << >>, state |-> "aborted",
                         signalled |-> TRUE]
            \/ /\ t[1] = "listener"
               /\ \E item \in StreamItems \cup {StreamEnd} :
                    last' = [handler |-> "listener", task |-> t, item |-> item,
                             emit |-> listen_task(item).emit,
                             state |-> IF listen_task(item).state = "listening"
                                       THEN "aborted"
                                       ELSE listen_task(item).state,
                             signalled |-> TRUE]
            \/ /\ t[1] = "timer"
               /\ \E answer \in RenewAnswers :
                    last' = [handler |-> "timer", task |-> t, item |-> answer,
                             emit |-> timer_task(answer).emit,
                             state |-> "aborted", signalled |-> TRUE]
    /\ UNCHANGED <<topology_subscription, event_stream, Unused>>

\* Drop for Subscriber (lines 419-423), a new Subscriber taking its place.
DropSubscriber ==
    /\ topology_subscription # Subscriber_default
    /\ topology_subscription' = Subscriber_default
    /\ event_stream' = terminate_tasks(topology_subscription, event_stream).tasks
    /\ queued_event_handles' =
         Signalled(event_stream,
                   terminate_tasks(topology_subscription, event_stream).tasks,
                   "drop")
    /\ last' = [handler |-> "drop"]
    /\ UNCHANGED Unused

NextSubscriber ==
    \/ SubscribeCall
    \/ ShutdownCall
    \/ ListenerEnds
    \/ ListenerNext
    \/ TimerRenews
    \/ SignalledTaskPolled
    \/ DropSubscriber

SpecSubscriber == InitSubscriber /\ [][NextSubscriber]_vars

(***************************************************************************)
(* The event channels between the subscriptions and the dispatcher.  An    *)
(* EventReceiver is a tokio watch receiver (types.rs line 38): the channel *)
(* holds one value, a send replaces it, and the receiver sees the value    *)
(* that is there when it looks.  run wraps each receiver in a WatchStream  *)
(* (lines 322, 328), which yields the value the channel holds first and    *)
(* then every value it finds changed.  In this specification event_stream  *)
(* holds, for each source, the channel: its value, the number of sends so  *)
(* far, and the number the receiver had seen when it last looked; last     *)
(* keeps what each source sent and what the dispatcher was handed.         *)
(***************************************************************************)
MaxEmitted == 3

WatchSources == {TopologyTag, "u1"}

\* The events a subscription sends (types.rs lines 28-34).
EventKinds(src) ==
    IF src = TopologyTag THEN {"TopoUpdate", "SubscribeError"}
    ELSE {"AVTransUpdate", "SubscribeError"}

\* watch::channel(Event::NoOp), not yet looked at by its WatchStream.
watch_channel == [value |-> "NoOp", version |-> 0, seen |-> -1]

\* watch::Sender::send: the value is replaced.
watch_send(ch, value) ==
    [ch EXCEPT !.value = value, !.version = ch.version + 1]

\* A variant of the stream that does not mark what it has yielded as seen.
watch_next_unmarked(ch) ==
    [ready |-> ch.seen # ch.version,
     item |-> [kind |-> ch.value, n |-> ch.version],
     ch |-> ch]

\* WatchStream::poll_next: ready when the channel has a value the receiver
\* has not seen; that value is yielded and marked seen.
watch_next(ch) ==
    [ready |-> ch.seen # ch.version,
     item |-> [kind |-> ch.value, n |-> ch.version],
     ch |-> [ch EXCEPT !.seen = ch.version]]

InitWatch ==
    /\ event_stream = [src \in WatchSources |-> watch_channel]
    /\ last = [handler |-> "none",
               emitted |-> [src \in WatchSources |-> << >>],
               handled |-> [src \in WatchSources |-> << >>]]
    /\ topology_subscription = NoSub
    /\ speakerdata = << >>
    /\ topology = << >>
    /\ queued_event_handles = {}
    /\ rx = "none"
    /\ pc = "loop"
    /\ queue = << >>
    /\ callers = [c \in Callers |-> "idle"]
    /\ manager = "none"

WatchUnused ==
    <<speakerdata, topology, topology_subscription, queued_event_handles, rx,
      pc, queue, callers, manager>>

\* A task of the subscription src sends an event.
SubscriptionEmits ==
    /\ \E src \in WatchSources :
         /\ event_stream[src].version < MaxEmitted
         /\ \E kind \in EventKinds(src) :
              /\ event_stream' =
                   [event_stream EXCEPT ![src] = watch_send(@, kind)]
              /\ last' = [last EXCEPT !.handler = "send",
                                      !.emitted[src] = Append(@, kind)]
    /\ UNCHANGED WatchUnused

\* The select of run (lines 328-341) takes the next event of event_stream:
\* any source that has one ready; the event goes to handle_event.
EventTaken ==
    /\ \E src \in WatchSources :
         LET o == watch_next(event_stream[src]) IN
         /\ o.ready
         /\ event_stream' = [event_stream EXCEPT ![src] = o.ch]
         /\ last' = [last EXCEPT !.handler = "handle_event",
                                 !.handled[src] = Append(@, o.item)]
    /\ UNCHANGED WatchUnused

NextWatch == SubscriptionEmits \/ EventTaken

\* The loop of run goes on selecting for as long as it runs, so an event
\* that stays ready is taken.
SpecWatch == InitWatch /\ [][NextWatch]_vars /\ WF_vars(EventTaken)

(***************************************************************************)
(* Properties.                                                             *)
(***************************************************************************)
Lower(S) == {to_ascii_lowercase(u) : u \in S}

RegisteredUuids == {uuid_of(speakerdata[i]) : i \in 1..Len(speakerdata)}

RecordsFor(uuid) ==
    {i \in 1..Len(speakerdata) : eq_ignore_ascii_case(uuid_of(speakerdata[i]), uuid)}

RecordsNamed(name) ==
    {i \in 1..Len(speakerdata) : eq_ignore_ascii_case(name_of(speakerdata[i]), name)}

GroupsListing(uuid) ==
    {g \in 1..Len(topology) :
        \E m \in 1..Len(topology[g][2]) : eq_ignore_ascii_case(topology[g][2][m], uuid)}

\* The last handler ran update_from_topology.
UpdateApplied ==
    /\ last.handler \in {"init", "TopoUpdate", "SubscribeError(topology)"}
    /\ last.update # "none"

\* C1: after update_from_topology has been applied to a payload T, the
\* registered uuids are exactly the member uuids T lists (uuids compared
\* as the registry compares them, ignoring ASCII case).
C1_RegistryIsListedUuids ==
    UpdateApplied => Lower(RegisteredUuids) = Lower(last.listed)

\* C2: whenever a record named N (ignoring case) is a member of a group
\* whose coordinator has a record, resolving N gives that coordinator's
\* record.
C2_ResolvesGroupCoordinator ==
    \A name \in ZoneNames : \A i \in RecordsNamed(name) :
      \A g \in GroupsListing(uuid_of(speakerdata[i])) :
        RecordsFor(topology[g][1]) # {}
        => get_coordinatordata_for_name(speakerdata, topology, name)
             \in RecordsFor(topology[g][1])

\* C2, amended: the same, when N names one record only and that record's
\* uuid is listed by one group only; and in every case the answer is a
\* record of the coordinator of a group that lists a record named N, or
\* none.
C2_ResolvesCoordinatorWhenUnambiguous ==
    \A name \in ZoneNames :
      LET c == get_coordinatordata_for_name(speakerdata, topology, name) IN
      /\ \A i \in RecordsNamed(name) : \A g \in GroupsListing(uuid_of(speakerdata[i])) :
           ( /\ Cardinality(RecordsNamed(name)) = 1
             /\ Cardinality(GroupsListing(uuid_of(speakerdata[i]))) = 1
             /\ RecordsFor(topology[g][1]) # {} )
           => c \in RecordsFor(topology[g][1])
      /\ c # 0 =>
           \E i \in RecordsNamed(name) : \E g \in GroupsListing(uuid_of(speakerdata[i])) :
             c \in RecordsFor(topology[g][1])

\* A member that is not its group's coordinator has been resolved to the
\* coordinator by a zone action.
C2_MemberResolved ==
    /\ last.handler = "DoZoneAction"
    /\ last.name = "Den"
    /\ last.coordinator # 0
    /\ Len(speakerdata) = 2
    /\ uuid_of(speakerdata[last.coordinator]) = "u1"
    /\ name_of(speakerdata[last.coordinator]) = "Kitchen"

\* The last handler ran a zone action other than Exists.
ZoneActionRun ==
    /\ last.handler = "DoZoneAction"
    /\ last.action.kind # "Exists"

CallsGoTo(calls, sd) == \A k \in 1..Len(calls) : calls[k].url = sd.speaker.device.url

\* The network answers the router is given in the properties quantified
\* over every action: every call succeeds, or the second one fails.
RouterAnswers ==
    [fail_at : {0, 2}, track : {Numeral(U32(0, 1))}, playing : {TRUE},
     overflow_checks : {TRUE}]

C4_NoCallerWaitsOnEndedLoop ==
    pc \in {"returned_err", "returned_ok", "panicked", "aborted"} =>
        \A c \in Callers : callers[c] \notin {"sending", "sent"}

\* C5: the running loop does not return because of a failure met while
\* handling an event; it returns only once the queue has been closed.
C5_LoopReturnsOnlyOnClosedQueue ==
    (pc \in {"returned_err", "returned_ok"} /\ last.handler # "run_start") =>
        pc = "returned_ok" /\ manager = "dropped"

\* C5, amended: the running loop returns Ok only once the Manager is
\* dropped and the queue is empty; it returns an error only from the
\* handling of a topology SubscribeError, when no registered device gives
\* the service (none registered, or the picked one lacks it) or when the
\* rediscovery after a failed subscribe fails; no other event failure
\* (failed topology update, failed transport resubscribe) ends it.
C5_LoopReturnsOnlyOnTopologyLoss ==
    /\ pc = "returned_ok" => manager = "dropped" /\ queue = << >>
    /\ (pc = "returned_err" /\ last.handler # "run_start") =>
          /\ last.handler = "SubscribeError(topology)"
          /\ last.result = "Err"
          /\ \/ last.steps = << >>
             \/ last.steps = <<"subscribe", "discover_one">>
             \/ last.steps = <<"subscribe", "discover_one", "zone_group_state">>
    /\ (last.handler \in {"TopoUpdate", "AVTransUpdate", "SubscribeError(transport)"}
        /\ manager = "alive") => pc = "loop"

\* The loop has returned because a rediscovery failed.
C5_LoopEndedByFailedRediscovery ==
    /\ pc = "returned_err"
    /\ last.handler = "SubscribeError(topology)"
    /\ last.steps = <<"subscribe", "discover_one">>

\* C6: a topology SubscribeError handled with an empty registry runs
\* discover_system before any subscribe attempt and does not end the loop.
C6_EmptyRegistryRediscovers ==
    (last.handler = "SubscribeError(topology)" /\ last.was_empty) =>
        /\ pc # "returned_err"
        /\ last.steps # << >>
        /\ last.steps[1] = "discover_one"

\* C6, amended: with an empty registry the handler takes no remote step
\* and returns NoSpeakersDetected, which ends the loop; discover_system
\* runs only after a subscribe attempt on a registered device has failed,
\* and no subscribe attempt follows it.
C6_EmptyRegistryEndsLoop ==
    last.handler = "SubscribeError(topology)" =>
        /\ last.was_empty => (last.steps = << >> /\ last.result = "Err"
                              /\ pc = "returned_err")
        /\ \A k \in 1..Len(last.steps) :
             /\ last.steps[k] = "subscribe" => k = 1
             /\ last.steps[k] = "discover_one" =>
                  (k = 2 /\ last.steps[1] = "subscribe" /\ ~last.was_empty)

\* A topology SubscribeError has been handled with an empty registry.
C6_HandledWithEmptyRegistry ==
    /\ last.handler = "SubscribeError(topology)"
    /\ last.was_empty
    /\ speakerdata = << >>

\* C7: after a transport SubscribeError tagged U, with U registered and
\* resolved again from its descriptor, the registry holds exactly one
\* record for U, with a subscription tagged U or with none.
C7_OneRecordAfterTransportFailure ==
    (last.handler = "SubscribeError(transport)" /\ last.found /\ last.resolved) =>
        /\ Cardinality(RecordsFor(last.uuid)) = 1
        /\ \A i \in RecordsFor(last.uuid) :
             /\ i = Len(speakerdata)
             /\ speakerdata[i].transport_subscription
                  \in {NoSub, Subscription(uuid_of(speakerdata[i]))}

\* Such a failure has been handled for one of two registered devices, and
\* the resubscription failed.
C7_ResolvedAndReinserted ==
    /\ last.handler = "SubscribeError(transport)"
    /\ last.found
    /\ last.resolved
    /\ Len(speakerdata) = 2
    /\ speakerdata[2].transport_subscription = NoSub
    /\ eq_ignore_ascii_case(uuid_of(speakerdata[2]), last.uuid)

Max(a, b) == IF a >= b THEN a ELSE b

SeekCalls(calls) == SelectSeq(calls, LAMBDA call : call.op = "Seek(TRACK_NR)")

\* C8: for every current track number c and delta d, SeekRelTrack(d)
\* issues exactly one absolute seek, to max(1, c + d), and c + d is
\* computed without overflow.
C8_SeeksToClampedSum ==
    (last.handler = "seek_rel_track" /\ last.track_known) =>
        /\ last.out.result # "Panic"
        /\ Len(SeekCalls(last.out.calls)) = 1
        /\ last.current.hi = 0
        /\ ~add_i32_overflows(last.current.lo, last.delta)
        /\ SeekCalls(last.out.calls)[1].arg = U32(0, Max(1, last.current.lo + last.delta))

\* C9: whatever fails in a zone action, handle_action returns Ok and the
\* loop goes on.
C9_ZoneActionNeverEndsLoop ==
    last.handler = "DoZoneAction" => (last.result = "Ok" /\ pc # "panicked")

\* The zone name resolves to no coordinator record: no record has the name,
\* or no group lists the named record, or the group's coordinator has no
\* record.
Unresolved(name) ==
    \/ RecordsNamed(name) = {}
    \/ LET i == CHOOSE j \in RecordsNamed(name) : \A k \in RecordsNamed(name) : j <= k
           u == uuid_of(speakerdata[i])
       IN \/ GroupsListing(u) = {}
          \/ LET g == CHOOSE h \in GroupsListing(u) : \A k \in GroupsListing(u) : h <= k
             IN RecordsFor(topology[g][1]) = {}

\* C10: a zone action other than Exists on a name that resolves to no
\* coordinator record replies NotOk and issues no remote call (so none is
\* repeated either).  Stated for the action handled last and for every
\* action, name and network answer the router can be given in the state.
C10_UnresolvedRepliesNotOk ==
    /\ (ZoneActionRun /\ Unresolved(last.name)) =>
          (last.reply = "NotOk" /\ last.calls = << >> /\ last.result = "Ok")
    /\ \A name \in ZoneNames :
         Unresolved(name) =>
           \A action \in ZoneActions \ {Action("Exists")}, net \in SystemAnswers :
             LET o == handle_action(speakerdata, topology, name, action, net) IN
             o.reply = "NotOk" /\ o.calls = << >> /\ o.result = "Ok"

\* An action on a zone whose group's coordinator has no record has been
\* answered.
C10_UnresolvedCoordinatorAnswered ==
    /\ ZoneActionRun
    /\ RecordsNamed(last.name) # {}
    /\ \A i \in RecordsNamed(last.name) :
         /\ GroupsListing(uuid_of(speakerdata[i])) # {}
         /\ \A g \in GroupsListing(uuid_of(speakerdata[i])) :
              RecordsFor(topology[g][1]) = {}
    /\ last.reply = "NotOk"

\* The start-up step handled last failed: discovery or the topology fetch
\* (init returns Err), the registry build (update_from_topology returns
\* Err), or the topology subscribe at the head of run().
StartupFailed ==
    \/ last.handler = "init" /\ (last.result # "Ok" \/ last.update = "Err")
    \/ last.handler = "run_start" /\ last.result # "Ok"

\* C11: when initial discovery, the initial topology fetch or registry
\* build, or the initial topology subscribe fails, no Manager exists.
C11_StartupFailureGivesNoManager ==
    StartupFailed => manager = "none"

\* The last step was a shutdown that sent UNSUBSCRIBE to the device.
UnsubscribeIssued ==
    /\ last.handler = "shutdown"
    /\ \E k \in 1..Len(last.trace) : last.trace[k] = "unsubscribe"

\* C12: a shutdown whose unsubscribe call is answered "already expired"
\* (HTTP 412) returns Ok.
C12_ExpiredUnsubscribeIsSuccess ==
    (UnsubscribeIssued /\ last.answer = HttpErrorCode(412)) => last.result = "Ok"

\* A subscribed Subscriber has been shut down and the device answered 412.
C12_ShutdownAnsweredExpired ==
    /\ UnsubscribeIssued
    /\ last.answer = HttpErrorCode(412)
    /\ last.before.sid \in Sids
    /\ topology_subscription = Subscriber_default

\* C13: a shutdown returns an error for every unsubscribe failure other
\* than "already expired", and whenever unsubscribe is issued both tasks
\* have been cancelled before it.
C13_OtherFailuresSurface ==
    UnsubscribeIssued =>
        /\ (last.answer.kind # "Ok" /\ last.answer # HttpErrorCode(412))
              => last.result # "Ok"
        /\ last.trace = <<"abort_listener", "abort_timer", "unsubscribe">>
        /\ event_stream = {}

\* C13, amended: a shutdown returns Ok when the unsubscribe call succeeds
\* or fails with any HTTP error status (412 or another), and an error when
\* it fails otherwise or when the Subscriber holds no subscription (no
\* call is made then); whenever unsubscribe is issued both abort callbacks
\* have been called before it, and after every shutdown no task of the
\* Subscriber is running and no handle is held.
C13_NonHttpFailuresSurface ==
    last.handler = "shutdown" =>
        /\ UnsubscribeIssued =>
             /\ last.result = "Ok" <=> last.answer.kind \in {"Ok", "HttpErrorCode"}
             /\ last.result = "UPnP" <=> last.answer.kind = "NetworkError"
             /\ last.trace = <<"abort_listener", "abort_timer", "unsubscribe">>
        /\ ~UnsubscribeIssued =>
             /\ last.before.service = NoneField
             /\ last.result = "SubscriberError"
             /\ last.trace = << >>
        /\ event_stream = {}
        /\ topology_subscription = Subscriber_default

\* A shutdown whose unsubscribe call did not get through has returned the
\* error, with the timer running until then and the listener already down.
C13_NetworkErrorSurfaced ==
    /\ UnsubscribeIssued
    /\ last.answer.kind = "NetworkError"
    /\ last.result = "UPnP"
    /\ last.before.abort_timer
    /\ event_stream = {}

\* The record sd of the registry before is still there after, once, with
\* its cached transport status, its Subscriber and its device untouched,
\* and its info either as it was or one the payload gives for its uuid.
RecordKept(sd, after, t) ==
    LET js == {j \in 1..Len(after) :
                  eq_ignore_ascii_case(uuid_of(after[j]), uuid_of(sd))}
    IN /\ Cardinality(js) = 1
       /\ \A j \in js :
            /\ after[j].transport_data = sd.transport_data
            /\ after[j].transport_subscription = sd.transport_subscription
            /\ after[j].speaker.device = sd.speaker.device
            /\ after[j].speaker.info \in
                  {sd.speaker.info} \cup
                  {info \in Range(MemberInfos(t)) :
                      eq_ignore_ascii_case(info.uuid, uuid_of(sd))}

\* Every record whose uuid payload t lists is kept by an application of t.
KeepsListedRecords(sds, after, t) ==
    \A i \in 1..Len(sds) :
        (\E u \in ListedUuids(t) : eq_ignore_ascii_case(u, uuid_of(sds[i])))
            => RecordKept(sds[i], after, t)

\* Between two registries: the same uuids, record for record, and the same
\* Subscribers and queued event handles.
SameRecords(o1, o2) ==
    /\ Len(o2.speakerdata) = Len(o1.speakerdata)
    /\ \A i \in 1..Len(o1.speakerdata) :
         /\ uuid_of(o2.speakerdata[i]) \in Lower({uuid_of(o1.speakerdata[i])})
              \cup {u \in {"u1", "U1", "u2"} :
                       eq_ignore_ascii_case(u, uuid_of(o1.speakerdata[i]))}
         /\ o2.speakerdata[i].transport_subscription
              = o1.speakerdata[i].transport_subscription
    /\ o2.queued = o1.queued

\* C14: applying a snapshot keeps every registered record it lists, with
\* its transport status and Subscriber unchanged and only its info
\* overwritten; applying the same snapshot a second time creates no
\* record, removes none and starts no subscription.
C14_ReapplyingChangesNothing ==
    \A t \in TopologyPayloads :
      \A o1 \in UpdateOutcomes(speakerdata, topology, queued_event_handles, t) :
        /\ KeepsListedRecords(speakerdata, o1.speakerdata, t)
        /\ \A o2 \in UpdateOutcomes(o1.speakerdata, o1.topology, o1.queued, t) :
             SameRecords(o1, o2)

\* What holds of two applications: listed records are kept, and a second
\* application after one that returned Ok changes no record and returns Ok.
ReapplyingAfterOkChangesNothing ==
    \A t \in TopologyPayloads :
      \A o1 \in UpdateOutcomes(speakerdata, topology, queued_event_handles, t) :
        /\ KeepsListedRecords(speakerdata, o1.speakerdata, t)
        /\ o1.result = "Ok" =>
             \A o2 \in UpdateOutcomes(o1.speakerdata, o1.topology, o1.queued, t) :
                /\ SameRecords(o1, o2)
                /\ o2.result = "Ok"

\* run() is over: it returned, unwound or was aborted.
RunEnded == pc \in {"returned_ok", "returned_err", "panicked", "aborted"}

\* C15: once every command sender is dropped, run() eventually returns
\* Ok(()), and only with every queued command handled.
C15_ClosedQueueReturnsOk ==
    /\ (manager = "dropped") ~> (pc = "returned_ok")
    /\ [](pc = "returned_ok" => queue = << >>)

\* C15, amended: once every command sender is dropped, run() eventually
\* ends: it returns Ok(()) when it finds the queue closed and empty, or
\* before that it returns the error of an event handler, unwinds on a
\* panic, or is aborted by Drop for Manager.  The commands still queued
\* when the senders are dropped are those whose callers gave up; run()
\* returns Ok(()) only when the senders are dropped and the queue is empty.
C15_ClosedQueueEndsRun ==
    /\ (manager = "dropped") ~> RunEnded
    /\ [](manager = "dropped" => \A i \in 1..Len(queue) : ~queue[i].alive)
    /\ [](pc = "returned_ok" =>
            /\ manager = "dropped"
            /\ queue = << >>
            /\ rx = "dropped")

\* The senders were dropped with a command of a caller that gave up
\* handled by the loop, and run() has returned Ok(()).
C15_ReturnedOkAfterQueuedCommand ==
    /\ manager = "dropped"
    /\ pc = "returned_ok"
    /\ last.handler = "DoZoneAction"
    /\ ~last.alive

\* Some registered record has exactly this display name.
Named(name) == \E i \in 1..Len(speakerdata) : name_of(speakerdata[i]) = name

\* What Exists replies for `name` in the current registry under `topo`.
ExistsReply(topo, name, net) ==
    handle_action(speakerdata, topo, name, Action("Exists"), net)

\* The outcomes a caller of Zone::action can be left with.
Outcome(c) == callers[c] \notin {"idle", "sending", "sent"}

\* C16: Exists replies Ok exactly when a registered record has the zone's
\* name, whatever the topology, and get_zone gives a Zone exactly then and
\* ZoneDoesNotExist in every other case.
C16_GetZoneIffNamed ==
    /\ \A name \in ZoneNames, net \in SystemAnswers :
         \A topo \in {topology} \cup {ReducedTopology(t) : t \in SystemPayloads} :
            ExistsReply(topo, name, net).reply = "Ok" <=> Named(name)
    /\ \A c \in Callers :
         Outcome(c) => get_zone(callers[c]) \in {"Zone", "ZoneDoesNotExist"}

\* C16, amended: Exists replies Ok exactly when a registered record's
\* display name equals the zone name character for character, whatever the
\* topology and without any remote call, and NotOk otherwise; get_zone
\* gives a Zone exactly on the reply Ok, ZoneDoesNotExist on any other
\* reply, and the error of Zone::action (ControllerOffline,
\* MessageRecvError) when the loop has ended and no reply comes.
C16_GetZoneIffNamedAndAnswered ==
    /\ \A name \in ZoneNames, net \in SystemAnswers :
         \A topo \in {topology} \cup {ReducedTopology(t) : t \in SystemPayloads} :
            LET o == ExistsReply(topo, name, net) IN
            /\ o.reply = (IF Named(name) THEN "Ok" ELSE "NotOk")
            /\ o.calls = << >>
            /\ o.result = "Ok"
            /\ get_zone(o.reply) = (IF Named(name) THEN "Zone" ELSE "ZoneDoesNotExist")
    /\ \A c \in Callers :
         Outcome(c) =>
            get_zone(callers[c]) =
               (CASE callers[c] = "Ok" -> "Zone"
                  [] callers[c] \in {"ControllerOffline", "MessageRecvError"} -> callers[c]
                  [] OTHER -> "ZoneDoesNotExist")

\* Exists was asked for "kitchen" with only "Kitchen" registered and was
\* answered NotOk to a waiting caller, while Exists for "Kitchen" is Ok.
C16_ExistsAnsweredByExactName ==
    /\ last.handler = "DoZoneAction"
    /\ last.action.kind = "Exists"
    /\ last.alive
    /\ last.name = "kitchen"
    /\ last.reply = "NotOk"
    /\ callers[last.caller] = "NotOk"
    /\ Named("Kitchen")
    /\ \A net \in SystemAnswers : ExistsReply(topology, "Kitchen", net).reply = "Ok"

\* The media references that resolve to nothing, and the answers the
\* media actions are given in the properties over every registered name.
UnknownMedia == {m \in MediaSources : m.item = "unknown"}

MediaAnswers ==
    [fail_at : 0..2, track : {Numeral(U32(0, 1)), NotANumber}, playing : {TRUE},
     overflow_checks : {TRUE}]

\* What PlayNow or QueueAsNext of an unknown media does on each registered
\* name that resolves to a coordinator.
UnknownMediaRuns ==
    { [kind |-> kind, media |-> m,
       out |-> handle_action(speakerdata, topology, name_of(speakerdata[i]),
                             MediaAction(kind, m), net)]
      : kind \in {"PlayNow", "QueueAsNext"}, m \in UnknownMedia,
        i \in 1..Len(speakerdata), net \in MediaAnswers }

Ops(calls) == {calls[k].op : k \in 1..Len(calls)}

\* C17: PlayNow and QueueAsNext resolve the media first: when it cannot be
\* resolved the reply is NotOk and no remote call has been sent.
C17_UnresolvedMediaSendsNothing ==
    \A r \in UnknownMediaRuns :
        r.out.coordinator # 0 =>
            /\ r.out.reply = "NotOk"
            /\ r.out.calls = << >>

\* C17, amended: when the media cannot be resolved, PlayNow and
\* QueueAsNext send no call that changes the queue, the transport URI or
\* the play state, and the reply is NotOk unless the handler panicked.
\* The calls sent are at most the track query with which QueueAsNext
\* begins (before the media is looked up) and the Browse with which a
\* Sonos playlist or favourite is looked up, in this order.
C17_UnresolvedMediaChangesNothing ==
    \A r \in UnknownMediaRuns :
        r.out.coordinator # 0 =>
            /\ r.out.reply = "NotOk" \/ r.out.result = "Panic"
            /\ Ops(r.out.calls) \subseteq {"GetPositionInfo", "Browse"}
            /\ "GetPositionInfo" \in Ops(r.out.calls) =>
                  r.kind = "QueueAsNext" /\ r.out.calls[1].op = "GetPositionInfo"
            /\ "Browse" \in Ops(r.out.calls) =>
                  r.media.kind \in {"SonosPlaylist", "SonosFavorite"}
            /\ Len(r.out.calls) <= 2
            /\ (r.kind = "PlayNow" /\ r.media.kind \in {"Apple", "Spotify"})
                  => r.out.calls = << >>

\* QueueAsNext of an unknown Spotify item has run on a coordinator: the
\* track was queried, nothing else was sent, and the reply was NotOk.
C17_TrackQueriedBeforeResolution ==
    /\ last.handler = "DoZoneAction"
    /\ last.action.kind = "QueueAsNext"
    /\ last.action.media.item = "unknown"
    /\ last.coordinator # 0
    /\ last.err = "ContentNotFound"
    /\ Ops(last.calls) = {"GetPositionInfo"}
    /\ last.reply = "NotOk"

\* The uuids the stored topology names: coordinators and members.
TopologyUuids ==
    {topology[g][1] : g \in 1..Len(topology)}
    \cup UNION { Range(topology[g][2]) : g \in 1..Len(topology) }

\* C18: every coordinator uuid and every member uuid of the stored
\* topology has a record in the registry.
C18_TopologyUuidsAreRegistered ==
    \A u \in TopologyUuids : RecordsFor(u) # {}

\* C19: no two records of the registry have the same uuid, letter case
\* set aside.
C19_UuidsAreUnique ==
    \A i, j \in 1..Len(speakerdata) :
        eq_ignore_ascii_case(uuid_of(speakerdata[i]), uuid_of(speakerdata[j])) => i = j

\* A payload that lists u1 twice, as "u1" and as "U1", has been applied:
\* there is one record for it, with the info listed last.
C19_UuidListedTwiceApplied ==
    /\ UpdateApplied
    /\ last.listed = {"u1", "U1"}
    /\ Cardinality(RecordsFor("u1")) = 1
    /\ \A i \in RecordsFor("u1") : speakerdata[i].speaker.info = InfoA2

\* The last handler took a transport SubscribeError for a registered
\* speaker and could not resolve the speaker again.
ResolutionFailed ==
    /\ last.handler = "SubscribeError(transport)"
    /\ last.found
    /\ ~last.resolved

\* C20: after a transport SubscribeError tagged X whose speaker cannot be
\* resolved again, the registry has no record for X.
C20_UnresolvedSpeakerIsDropped ==
    ResolutionFailed => RecordsFor(last.uuid) = {}

\* C20, amended: after a transport SubscribeError tagged X whose speaker
\* cannot be resolved again, the record for X is back in the registry, as
\* its last record and the only one for X, still holding the Subscriber it
\* had; the stored topology is untouched.
C20_UnresolvedSpeakerIsPutBack ==
    ResolutionFailed =>
        /\ RecordsFor(last.uuid) = {Len(speakerdata)}
        /\ speakerdata[Len(speakerdata)].transport_subscription = Subscription(last.uuid)
        /\ last.result = "Ok"
        /\ pc = "loop"

\* The speaker that could not be resolved again was the first of two
\* records and is now the second.
C20_PutBackBehindTheOther ==
    /\ ResolutionFailed
    /\ Len(speakerdata) = 2
    /\ RecordsFor(last.uuid) = {2}
    /\ last.uuid = "u1"
    /\ uuid_of(speakerdata[1]) = "u2"

\* The last handler took a transport SubscribeError for a registered
\* speaker and resolved the speaker again.
ResolutionSucceeded ==
    /\ last.handler = "SubscribeError(transport)"
    /\ last.found
    /\ last.resolved

\* C21: after a transport SubscribeError tagged X whose speaker is resolved
\* again, the record put back is built from the resolution: its speaker is
\* the one found at the descriptor's location, and its subscription is the
\* new one or none.
C21_ReinsertedRecordHoldsResolvedDevice ==
    ResolutionSucceeded =>
        LET sd == speakerdata[Len(speakerdata)] IN
        /\ RecordsFor(last.uuid) = {Len(speakerdata)}
        /\ sd.speaker = Speaker_from_device(sd.speaker.info)
        /\ sd.transport_subscription \in get_av_transport_subscription(sd.speaker)

\* The last handler took a topology SubscribeError, could not subscribe
\* again, and rediscovered the system with success.
RediscoverySucceeded ==
    /\ last.handler = "SubscribeError(topology)"
    /\ Len(last.steps) > 1
    /\ last.result = "Ok"

\* C22: when the handling of a topology SubscribeError falls back on
\* rediscovery and the rediscovery succeeds, the topology subscribe is
\* tried again and a topology event channel is tracked once more.
C22_RediscoveryResubscribes ==
    RediscoverySucceeded =>
        /\ topology_subscription.subscribed
        /\ TopologyTag \in event_stream

\* Caller c has a command in the queue of the running loop.
Waiting(c) == callers[c] = "sent" /\ pc = "loop"

\* C23: under fair scheduling a command waiting in the queue of the
\* running loop is eventually taken and handled, whatever the event
\* sources do; it is never left unanswered.
C23_QueuedCommandIsHandled ==
    \A c \in Callers :
        Waiting(c) ~> (callers[c] \notin {"sent", "MessageRecvError"})

\* C23, amended: under fair scheduling a command waiting in the queue of
\* the running loop does not wait for ever, whether events keep coming,
\* none comes or no event channel is tracked: it is taken and handled,
\* or the loop ends first and the command is dropped, its caller getting
\* MessageRecvError.  A caller gets MessageRecvError only when the loop
\* has ended.
C23_QueuedCommandIsHandledOrDropped ==
    /\ \A c \in Callers : Waiting(c) ~> (callers[c] # "sent")
    /\ [](\A c \in Callers : callers[c] = "MessageRecvError" => RunEnded)

\* A waiting caller's command has been handled and answered by a loop
\* that tracks no event channel at all.
C23_HandledWithNoEventChannel ==
    /\ pc = "loop"
    /\ event_stream = {}
    /\ last.handler = "DoZoneAction"
    /\ last.alive
    /\ last.reply # "none"
    /\ callers[last.caller] = last.reply

\* The uuids an AVTransUpdate can carry: registered ones in either case,
\* and one no payload ever lists.
EventUuids == {"u1", "U1", "u2", "u3"}

\* `after` is `before` with the cached status of the records in `hit`
\* set to `data`, and nothing else touched.
OnlyStatusReplaced(before, after, hit, data) ==
    /\ Len(after) = Len(before)
    /\ \A i \in 1..Len(before) :
         IF i \in hit
         THEN after[i] = [before[i] EXCEPT !.transport_data = data]
         ELSE after[i] = before[i]

\* update_avtransport_data on the registry of the state, for any uuid.
StatusUpdateIsFramed ==
    \A uuid \in EventUuids, data \in TransportStatuses :
        LET after == update_avtransport_data(speakerdata, uuid, data) IN
        /\ RecordsFor(uuid) = {} => after = speakerdata
        /\ RecordsFor(uuid) # {} =>
             /\ Cardinality(RecordsFor(uuid)) = 1
             /\ OnlyStatusReplaced(speakerdata, after, RecordsFor(uuid), data)

\* A step that handles an AVTransUpdate changes the registry as
\* update_avtransport_data does and leaves the rest of the controller.
StatusUpdateStep ==
    last'.handler = "AVTransUpdate" =>
        /\ \E data \in TransportStatuses :
              speakerdata' = update_avtransport_data(speakerdata, last'.uuid, data)
        /\ UNCHANGED <<topology, topology_subscription, queued_event_handles,
                       event_stream, pc, rx>>

\* C24: handling an AVTransUpdate replaces the cached status of the record
\* with the event's uuid and changes nothing else; with no record of that
\* uuid the registry, the topology and the subscriptions stay as they are.
C24_TransportUpdateTouchesOnlyStatus ==
    /\ []StatusUpdateIsFramed
    /\ [][StatusUpdateStep]_vars

\* An AVTransUpdate for u1 has been handled in a registry of two: the
\* record for u1 holds a status, the other record holds none.
C24_StatusCachedForOneOfTwo ==
    /\ last.handler = "AVTransUpdate"
    /\ Len(speakerdata) = 2
    /\ \A i \in RecordsFor(last.uuid) : speakerdata[i].transport_data # << >>
    /\ \E j \in 1..Len(speakerdata) :
          j \notin RecordsFor(last.uuid) /\ speakerdata[j].transport_data = << >>

\* Outcome o of applying payload t went through to the end: every listed
\* uuid is registered and the stored topology is the payload's.
AppliedInFull(o, t) ==
    /\ o.result = "Ok"
    /\ \A u \in ListedUuids(t) :
          \E i \in 1..Len(o.speakerdata) :
              eq_ignore_ascii_case(uuid_of(o.speakerdata[i]), u)
    /\ o.topology = ReducedTopology(t)

\* In outcome o every record that the registry did not hold before is
\* without a subscription, and no event handle was queued.
NoNewSubscription(o) ==
    /\ \A i \in 1..Len(o.speakerdata) :
          RecordsFor(uuid_of(o.speakerdata[i])) = {}
              => o.speakerdata[i].transport_subscription = NoSub
    /\ o.queued = queued_event_handles

\* C25: a transport subscribe that fails for a newly made record does not
\* end the topology update: with every such subscribe failing the update
\* still registers every listed member, without subscription, and
\* replaces the stored topology; and an update that returns Ok has done
\* so whatever the subscribes gave.
C25_FailedSubscribeDoesNotAbortUpdate ==
    \A t \in TopologyPayloads :
        LET outs == UpdateOutcomes(speakerdata, topology, queued_event_handles, t) IN
        /\ \E o \in outs : AppliedInFull(o, t) /\ NoNewSubscription(o)
        /\ \A o \in outs : o.result = "Ok" => AppliedInFull(o, t)

\* Started from an empty registry, an update has registered two new
\* speakers: the subscribe failed for the first, the second was still
\* processed and subscribed, and the topology was stored.
C25_SecondMemberAddedAfterFailedSubscribe ==
    /\ last.handler = "init"
    /\ last.update = "Ok"
    /\ Len(speakerdata) = 2
    /\ speakerdata[1].transport_subscription = NoSub
    /\ speakerdata[2].transport_subscription.subscribed
    /\ Len(topology) = 1
    /\ Len(topology[1][2]) = 2

\* C26: in the stored topology each group's coordinator is one of the
\* group's own members and is registered, and the coordinator is resolved
\* from the name of every registered member of the group.
C26_CoordinatorIsRegisteredMember ==
    \A g \in 1..Len(topology) :
        /\ \E m \in 1..Len(topology[g][2]) :
              eq_ignore_ascii_case(topology[g][2][m], topology[g][1])
        /\ RecordsFor(topology[g][1]) # {}
        /\ \A m \in 1..Len(topology[g][2]) :
              \A i \in RecordsFor(topology[g][2][m]) :
                  get_coordinatordata_for_name(speakerdata, topology,
                                               name_of(speakerdata[i])) # 0

\* The tasks of one kind that are running and have not been signalled.
Running(kind) == {t \in event_stream : t[1] = kind}

TaskStep == last.handler \in {"listener", "listener_down", "timer", "aborted"}

\* C28: when a Subscriber is destroyed without shutdown its listener and
\* renewal tasks are cancelled, and no task of a destroyed Subscriber
\* emits an event afterwards.
C28_DroppedSubscriberEmitsNothing ==
    /\ last.handler = "drop" => event_stream = {}
    /\ TaskStep /\ last.signalled /\ last.task[2] = "drop" => last.emit = << >>

\* C29: the listener survives every malformed notification: an item that
\* could not be parsed, or one without the expected variable, emits no
\* event and leaves the listener listening.
C29_MalformedNotificationIsSkipped ==
    /\ last.handler = "listener"
    /\ ~last.signalled
    /\ last.item \in {"BadZoneGroupState", "NoZoneGroupState", "StreamErr"}
    => /\ last.emit = << >>
       /\ last.state = "listening"
       /\ last.task \in event_stream

\* C30: a listener that stops without having been cancelled has sent
\* ListenerDown: it never stops silently.
C30_ListenerNeverStopsSilently ==
    /\ TaskStep
    /\ last.task[1] = "listener"
    /\ last.state \notin {"listening", "aborted"}
    => last.emit = <<"ListenerDown">>

\* A running renewal task has just had a renewal fail.
RenewalFailed ==
    last.handler = "timer" /\ ~last.signalled /\ last.item = "Err"

\* A renewal task leaves the running tasks only by being signalled.
TimerEndsOnlySignalled ==
    \A t \in event_stream :
       t[1] = "timer" /\ t \notin event_stream'
       => \E by \in {"subscribe", "shutdown", "drop"} :
             <<"timer", by>> \in queued_event_handles'

C32_CancellationIsIdempotent ==
    last.handler = "shutdown" =>
        /\ last.result # "SubscriberError"
        /\ UnsubscribeIssued =>
              last.trace = <<"abort_listener", "abort_timer", "unsubscribe">>

\* C32, amended: calling the abort callback of a task that has finished on
\* its own is a no-op that reports no error, and both callbacks are called
\* before the unsubscribe call; a shutdown that finds the callbacks already
\* taken (a second shutdown) reports an error and calls nothing.
C32_FinishedTaskCancelsQuietly ==
    last.handler = "shutdown" =>
        /\ (last.before.abort_listener /\ last.before.abort_timer) =>
              /\ last.trace = <<"abort_listener", "abort_timer", "unsubscribe">>
              /\ last.result # "SubscriberError"
        /\ ~(last.before.abort_listener /\ last.before.abort_timer) =>
              /\ last.trace = << >>
              /\ last.result = "SubscriberError"

\* A Subscriber whose listener had finished on its own has been shut down
\* without error.
C32_ShutdownAfterListenerFinished ==
    /\ last.handler = "shutdown"
    /\ last.before.abort_listener
    /\ last.over = {TimerTask(last.before.sid)}
    /\ last.result = "Ok"

\* The n-th event the source sent has been handed to the dispatcher.
Handled(src, n) ==
    \E i \in 1..Len(last.handled[src]) : last.handled[src][i].n = n

\* C33: the dispatcher is handed the events of one subscription in the
\* order the subscription sent them: each event handed over was sent
\* later than the one handed over before it, and is the event that was
\* sent at that position.
C33_EventsOfOneSourceInOrder ==
    \A src \in WatchSources :
       LET h == last.handled[src] IN
       /\ \A i \in 1..Len(h) :
            h[i].n >= 1 => /\ h[i].n <= Len(last.emitted[src])
                           /\ h[i].kind = last.emitted[src][h[i].n]
       /\ \A i, j \in 1..Len(h) : i < j => h[i].n < h[j].n

\* The dispatcher has been handed the first and the third event of the
\* transport subscription, and an event of the topology subscription sent
\* before the first of them only after it.
C33_HandledInOrderAcrossGap ==
    /\ Len(last.handled["u1"]) >= 2
    /\ Handled("u1", 1)
    /\ Handled("u1", 3)
    /\ Handled(TopologyTag, 1)
    /\ last.handler = "handle_event"

\* C37: every SubscribeError a subscription sends is eventually handed to
\* the dispatcher, also when the subscription sends another event before
\* the dispatcher has looked at the channel.
C37_EverySubscribeErrorIsHandled ==
    \A src \in WatchSources : \A n \in 1..MaxEmitted :
       [](/\ Len(last.emitted[src]) >= n
          /\ last.emitted[src][n] = "SubscribeError"
          => <>Handled(src, n))

\* The queue gives up its oldest command, to the step that makes the
\* command's remote calls and writes its reply, with the loop going on.
OldestCommandLeaves ==
    /\ queue # << >>
    /\ queue' = Tail(queue)
    /\ last'.handler = "DoZoneAction"
    /\ last'.caller = Head(queue).caller
    /\ last'.alive = Head(queue).alive
    /\ last'.reply # "none"
    /\ Head(queue).alive => callers'[Head(queue).caller] = last'.reply

\* The queue keeps the commands it holds in place.
QueueKeepsOrder ==
    /\ Len(queue') >= Len(queue)
    /\ \A i \in 1..Len(queue) : /\ queue'[i].caller = queue[i].caller
                                 /\ queue'[i].alive => queue[i].alive

CurrentTrackAt(status) == Position(status, LAMBDA e : e[1] = "CurrentTrack")

\* C35: queue_as_next takes the current track from the cached CurrentTrack
\* entry when the status holds one and asks the device only when it holds
\* none, and enqueues the media at the current track plus one.
C35_QueuedBehindCachedCurrentTrack ==
    last.handler = "queue_as_next" =>
        LET k == CurrentTrackAt(last.status)
            calls == last.out.calls
            queried == \E i \in 1..Len(calls) : calls[i].op = "GetPositionInfo"
            current == IF k # 0 THEN last.status[k][2].val ELSE last.track
        IN /\ queried <=> k = 0
           /\ \A i \in 1..Len(calls) :
                calls[i].op = "AddURIToQueue"
                => calls[i].arg = wrapping_add_u32(current, 1)
           /\ (k # 0 /\ last.media.kind \in {"Apple", "Spotify"}
                    /\ last.media.item = "known")
                => \E i \in 1..Len(calls) : calls[i].op = "AddURIToQueue"

\* C36: every DoZoneAction command taken from the queue has exactly one
\* Response written to its reply channel, whatever the action and however
\* it went; a caller still waiting has received it.
C36_EveryCommandGetsOneResponse ==
    last.handler = "DoZoneAction" =>
        /\ last.reply \in {"Ok", "NotOk", "Queue", "Snapshot"}
        /\ last.alive => callers[last.caller] \in {last.reply, "sent", "sending", "idle"}

\* C39: for every zone name for which the actions other than Exists
\* resolve a coordinator, Exists replies Ok, so get_zone hands out a Zone
\* for every name the command router accepts.
C39_ExistsAgreesWithResolution ==
    \A name \in ZoneNames, net \in SystemAnswers :
       get_coordinatordata_for_name(speakerdata, topology, name) # 0
       => /\ ExistsReply(topology, name, net).reply = "Ok"
          /\ get_zone(ExistsReply(topology, name, net).reply) = "Zone"

\* C38: an update_from_topology that fails partway leaves the registry and
\* the stored topology exactly as they were before it.
C38_FailedUpdateChangesNothing ==
    \A t \in TopologyPayloads :
      \A o \in UpdateOutcomes(speakerdata, topology, queued_event_handles, t) :
         o.result # "Ok" => /\ o.speakerdata = speakerdata
                            /\ o.topology = topology

\* The running loop takes a command from the queue and executes it, to
\* its reply or to a panic.
CommandExecuted ==
    /\ pc = "loop"
    /\ queue # << >>
    /\ last'.handler = "DoZoneAction"
    /\ \/ pc' = "loop" /\ Len(queue') < Len(queue)
       \/ pc' = "panicked"

====
